--------------------------- MODULE DocumentIngest ---------------------------
\* The reading of a case's documents (apps/api/src/document-ingest.ts and
\* ingest-progress.ts): every listed file is downloaded, archives are unpacked,
\* and links found inside a file join the same job, which is bounded in depth,
\* in number and in repeats.  One file at a time, as a stack of nested calls.
EXTENDS Naturals, Sequences, FiniteSets, SequencesExt

CONSTANTS
    Files,          \* all files there are; a file is what one URL answers
    Listed,         \* the files the platform may list for the case
    Members,        \* archive -> files inside it
    Links,          \* file -> files its text links to
    UnpackDepth,    \* MAX_ARCHIVE_UNPACK_DEPTH
    LinkDepth,      \* MAX_DOCUMENT_LINK_DEPTH
    LinkBudget,     \* MAX_LINKED_DOCUMENTS_PER_JOB
    Jobs,           \* bound on jobs
    Upsets          \* bound on failed calls and crashes

ASSUME IngestConstants ==
    /\ Listed \subseteq Files /\ Members \in [Files -> SUBSET Files] /\ Links \in [Files -> SUBSET Files]
    /\ {UnpackDepth, LinkDepth, LinkBudget, Jobs, Upsets} \subseteq Nat

VARIABLES
    documents,  \* the case's documents: key -> "hashed" or "failed"
    blobs,      \* files stored
    job,        \* what runs: "none", "ingest" or "reindex"
    waiting,    \* top-level files the job has still to take
    stack,      \* the files being read, the innermost last
    gathered,   \* documents the job has returned so far
    fetched,    \* files the job never fetches (again) by a link
    seen,       \* keys the job has met
    budget,     \* links the job may still follow
    progress,   \* what the console shows: key -> state
    upsets, jobs,
    fetches     \* history: file -> downloads in this job

ingestVars == <<documents, blobs, job, waiting, stack, gathered, fetched, seen,
                budget, progress, upsets, jobs, fetches>>

\* A document's key is its sourceUrl: the listed file, then a fragment.  A link
\* extends the fragment it is found under; an archive member replaces it, so a
\* member of a nested archive is known by the outermost file and its own name.
ListedKey(file) == <<file>>
MemberKey(parent, file) == <<parent[1], <<"member", file>>>>
LinkKey(parent, file) == Append(parent, <<"link", file>>)
IsMemberKey(key) == Len(key) > 1 /\ key[2][1] = "member"
IsLinkedKey(key) == \E i \in 2..Len(key) : key[i][1] = "link"
IsArchive(file) == Members[file] # {}

Top == stack[Len(stack)]
Below == SubSeq(stack, 1, Len(stack) - 1)
OnTop(frame) == [stack EXCEPT ![Len(stack)] = frame]
NoDocuments == <<>>
With(docs, key, status) == [k \in DOMAIN docs \union {key} |-> IF k = key THEN status ELSE docs[k]]
Both(docs, more) == [k \in DOMAIN docs \union DOMAIN more |-> IF k \in DOMAIN more THEN more[k] ELSE docs[k]]

\* replaceFile: a file the progress does not list is not shown.
Shown(key, state) == IF key \in DOMAIN progress THEN [progress EXCEPT ![key] = state] ELSE progress

Frame(key, file, kind, depth, linkDepth, step) ==
    [key |-> key, file |-> file, kind |-> kind, depth |-> depth, linkDepth |-> linkDepth,
     step |-> step, todo |-> {}, out |-> NoDocuments]

\* A frame returns: its documents join those of the call that waits for it.
Returned(docs) ==
    IF Below = <<>>
    THEN stack' = <<>> /\ gathered' = Both(gathered, docs)
    ELSE /\ stack' = [Below EXCEPT ![Len(Below)].out = Both(@, docs)]
         /\ UNCHANGED gathered

\* An exception: the innermost link being followed catches it and is failed,
\* with all it had gathered; outside of any link it ends the job.
LinkFrames == {i \in 1..Len(stack) : stack[i].kind = "link"}
Thrown ==
    LET i == CHOOSE n \in LinkFrames : \A m \in LinkFrames : m <= n
    IN  IF LinkFrames = {}
        THEN /\ job' = "none" /\ stack' = <<>> /\ waiting' = {}
             /\ UNCHANGED <<gathered, progress>>
        ELSE /\ stack' = [SubSeq(stack, 1, i - 1) EXCEPT ![i - 1].out = With(@, stack[i].key, "failed")]
             /\ progress' = Shown(stack[i].key, "failed")
             /\ UNCHANGED <<job, waiting, gathered>>

Upset == upsets < Upsets /\ upsets' = upsets + 1

----------------------------------------------------------------------------
\* ingest: the platform is asked anew which files it lists, and may have added or
\* withdrawn some; those hashed before are not read again.
Ingest ==
    /\ job = "none" /\ jobs < Jobs /\ jobs' = jobs + 1
    /\ \E listing \in SUBSET Listed : fetched' = listing /\ waiting' = {ListedKey(f) : f \in listing}
    /\ job' = "ingest" /\ stack' = <<>> /\ gathered' = NoDocuments
    /\ seen' = {} /\ budget' = LinkBudget
    /\ progress' = [k \in waiting' |-> "pending"]
    /\ fetches' = [f \in Files |-> 0]
    /\ UNCHANGED <<documents, blobs, upsets>>

TakeListed(key) ==
    /\ job = "ingest" /\ stack = <<>> /\ key \in waiting
    /\ waiting' = waiting \ {key} /\ seen' = seen \union {key}
    /\ IF key \in DOMAIN documents /\ documents[key] = "hashed"
       THEN /\ gathered' = With(gathered, key, "hashed")
            /\ UNCHANGED <<stack, progress>>
       ELSE /\ stack' = <<Frame(key, key[1], "listed", 0, 0, "download")>>
            /\ progress' = Shown(key, "downloading")
            /\ UNCHANGED gathered
    /\ UNCHANGED <<documents, blobs, job, fetched, budget, upsets, jobs, fetches>>

\* The download of a file: its bytes are in the blob store, or the file is
\* failed (a refusal, a lost blob, a page of HTML in its place).
Download ==
    /\ stack # <<>> /\ Top.step = "download"
    /\ fetches' = [fetches EXCEPT ![Top.file] = @ + 1]
    /\ \/ /\ blobs' = blobs \union {Top.file}
          /\ stack' = OnTop([Top EXCEPT !.step = "index"])
          /\ progress' = Shown(Top.key, "indexing")
          /\ UNCHANGED <<gathered, upsets>>
       \/ /\ Upset
          /\ Returned(With(NoDocuments, Top.key, "failed"))
          /\ progress' = Shown(Top.key, "failed")
          /\ UNCHANGED blobs
    /\ UNCHANGED <<documents, job, waiting, fetched, seen, budget, jobs>>

\* indexStoredFile, an archive: it is hashed, and each member is stored and read.
Unpack ==
    /\ stack # <<>> /\ Top.step = "index" /\ IsArchive(Top.file) /\ Top.depth < UnpackDepth
    /\ stack' = OnTop([Top EXCEPT !.step = "members", !.todo = Members[Top.file],
                                  !.out = With(Top.out, Top.key, "hashed")])
    /\ progress' = Shown(Top.key, "read")
    /\ UNCHANGED <<documents, blobs, job, waiting, gathered, fetched, seen, budget, upsets, jobs, fetches>>

TakeMember(file) ==
    /\ stack # <<>> /\ Top.step = "members" /\ file \in Top.todo
    /\ \/ /\ blobs' = blobs \union {file}
          /\ stack' = Append(OnTop([Top EXCEPT !.todo = @ \ {file}]),
                             Frame(MemberKey(Top.key, file), file, "member", Top.depth + 1, Top.linkDepth, "index"))
          /\ UNCHANGED <<upsets, job, waiting, gathered, progress>>
       \/ Upset /\ Thrown /\ UNCHANGED blobs
    /\ UNCHANGED <<documents, fetched, seen, budget, jobs, fetches>>

\* ... any other file: recognised, then its links are followed unless the file
\* is itself too deep, or the job reads again what it has.
Recognize ==
    /\ stack # <<>> /\ Top.step = "index" /\ (~IsArchive(Top.file) \/ Top.depth >= UnpackDepth)
    /\ stack' = OnTop([Top EXCEPT !.step = "links",
                                  !.todo = IF job = "reindex" \/ Top.linkDepth >= LinkDepth
                                           THEN {} ELSE Links[Top.file] \ fetched])
    /\ UNCHANGED <<documents, blobs, job, waiting, gathered, fetched, seen, budget, progress, upsets, jobs, fetches>>

\* followDocumentLinks: each link once in a job, within its budget.
FollowAgain(file) ==
    LET key == LinkKey(Top.key, file)
    IN  /\ stack # <<>> /\ Top.step = "links" /\ file \in Top.todo
        /\ seen' = seen \union {key} /\ fetched' = fetched
        /\ IF budget = 0
           THEN /\ stack' = OnTop([Top EXCEPT !.todo = {}])
                /\ UNCHANGED <<budget, progress>>
           ELSE /\ budget' = budget - 1
                /\ stack' = Append(OnTop([Top EXCEPT !.todo = @ \ {file}]),
                                   Frame(key, file, "link", 0, Top.linkDepth + 1, "download"))
                /\ progress' = With(progress, key, "downloading")
        /\ UNCHANGED <<documents, blobs, job, waiting, gathered, upsets, jobs, fetches>>

FollowUnbounded(file) ==
    LET key == LinkKey(Top.key, file)
    IN  /\ stack # <<>> /\ Top.step = "links" /\ file \in Top.todo
        /\ seen' = seen \union {key} /\ fetched' = fetched \union {file}
        /\ stack' = Append(OnTop([Top EXCEPT !.todo = @ \ {file}]),
                           Frame(key, file, "link", 0, Top.linkDepth + 1, "download"))
        /\ progress' = With(progress, key, "downloading")
        /\ UNCHANGED <<documents, blobs, job, waiting, gathered, budget, upsets, jobs, fetches>>

Follow(file) ==
    LET key == LinkKey(Top.key, file)
    IN  /\ stack # <<>> /\ Top.step = "links" /\ file \in Top.todo
        /\ IF file \in fetched
           THEN /\ stack' = OnTop([Top EXCEPT !.todo = @ \ {file}])
                /\ UNCHANGED <<fetched, seen, budget, progress>>
           ELSE /\ fetched' = fetched \union {file} /\ seen' = seen \union {key}
                /\ IF budget = 0
                   THEN /\ stack' = OnTop([Top EXCEPT !.todo = {}])
                        /\ UNCHANGED <<budget, progress>>
                   ELSE /\ budget' = budget - 1
                        /\ stack' = Append(OnTop([Top EXCEPT !.todo = @ \ {file}]),
                                           Frame(key, file, "link", 0, Top.linkDepth + 1, "download"))
                        /\ progress' = With(progress, key, "downloading")
        /\ UNCHANGED <<documents, blobs, job, waiting, gathered, upsets, jobs, fetches>>

\* The file is done: an archive was finished before its members, any other file
\* is hashed now.
Return ==
    /\ stack # <<>> /\ Top.step \in {"members", "links"} /\ Top.todo = {}
    /\ Returned(With(Top.out, Top.key, "hashed"))
    /\ progress' = IF Top.step = "links" THEN Shown(Top.key, "read") ELSE progress
    /\ UNCHANGED <<documents, blobs, job, waiting, fetched, seen, budget, upsets, jobs, fetches>>

\* What earlier jobs unpacked or followed stays, unless this job met it again; a
\* member is never counted as met, so one unpacked again stands in the list twice,
\* which is here the one key, as it was.
Earlier == {k \in DOMAIN documents : (IsMemberKey(k) \/ IsLinkedKey(k)) /\ k \notin seen}
GatheredOnly == gathered
Finished ==
    IF job = "ingest"
    THEN Both(gathered, [k \in Earlier |-> documents[k]])
    ELSE gathered

FinishJob ==
    /\ job # "none" /\ waiting = {} /\ stack = <<>>
    /\ documents' = Finished /\ job' = "none"
    /\ UNCHANGED <<blobs, waiting, stack, gathered, fetched, seen, budget, progress, upsets, jobs, fetches>>

----------------------------------------------------------------------------
\* reindex: the stored files are read again, without the platform.
ReindexRoots == {k \in DOMAIN documents : documents[k] = "hashed" /\ ~IsMemberKey(k)}
FileOf(key) == IF Len(key) = 1 THEN key[1] ELSE key[Len(key)][2]

Reindex ==
    /\ job = "none" /\ jobs < Jobs /\ jobs' = jobs + 1 /\ ReindexRoots # {}
    /\ job' = "reindex" /\ waiting' = ReindexRoots /\ stack' = <<>> /\ gathered' = NoDocuments
    /\ fetched' = Files /\ seen' = {} /\ budget' = 0
    /\ progress' = [k \in ReindexRoots |-> "pending"]
    /\ fetches' = [f \in Files |-> 0]
    /\ UNCHANGED <<documents, blobs, upsets>>

TakeStored(key) ==
    /\ job = "reindex" /\ stack = <<>> /\ key \in waiting
    /\ waiting' = waiting \ {key}
    /\ \/ /\ stack' = <<Frame(key, FileOf(key), "stored", 0, 0, "index")>>
          /\ progress' = Shown(key, "indexing")
          /\ UNCHANGED <<gathered, upsets>>
       \/ /\ Upset
          /\ gathered' = With(gathered, key, "hashed") /\ progress' = Shown(key, "skipped")
          /\ UNCHANGED stack
    /\ UNCHANGED <<documents, blobs, job, fetched, seen, budget, jobs, fetches>>

\* The process dies, or the listing fails: the case keeps what it had.
JobDies ==
    /\ job # "none" /\ Upset
    /\ job' = "none" /\ stack' = <<>> /\ waiting' = {}
    /\ UNCHANGED <<documents, blobs, gathered, fetched, seen, budget, progress, jobs, fetches>>

IngestInit ==
    /\ documents = NoDocuments /\ blobs = {} /\ job = "none" /\ waiting = {} /\ stack = <<>>
    /\ gathered = NoDocuments /\ fetched = {} /\ seen = {} /\ budget = 0 /\ progress = <<>>
    /\ upsets = 0 /\ jobs = 0 /\ fetches = [f \in Files |-> 0]

JobStep ==
    \/ \E k \in waiting : TakeListed(k) \/ TakeStored(k)
    \/ \E f \in Files : TakeMember(f) \/ Follow(f)
    \/ Download \/ Unpack \/ Recognize \/ Return \/ FinishJob

IngestNext == Ingest \/ Reindex \/ JobStep \/ JobDies

IngestSpec == IngestInit /\ [][IngestNext]_ingestVars

----------------------------------------------------------------------------
Hashed(docs) == {k \in DOMAIN docs : docs[k] = "hashed"}

\* A key the job can form: a listed file, then at most one member and LinkDepth links.
IsKey(key) ==
    /\ key[1] \in Listed /\ Len(key) <= LinkDepth + 2
    /\ \A i \in 2..Len(key) : /\ key[i] \in {"member", "link"} \X Files
                              /\ key[i][1] = "member" => i = 2

IngestTypeOK ==
    /\ (\A k \in DOMAIN documents \union DOMAIN progress \union seen : IsKey(k)) /\ blobs \subseteq Files
    /\ job \in {"none", "ingest", "reindex"} /\ fetched \subseteq Files
    /\ budget \in 0..LinkBudget
    /\ upsets \in 0..Upsets /\ jobs \in 0..Jobs
    /\ \A i \in 1..Len(stack) : IsKey(stack[i].key) /\ stack[i].depth <= UnpackDepth
                                /\ stack[i].linkDepth <= LinkDepth

\* Files that link to each other, to themselves or to a file of the list are
\* fetched once in a job, however they are reached, and the links followed stay
\* within the job's budget, however deep they are found.
LinksAreBounded ==
    /\ \A f \in Files : fetches[f] <= 1
    /\ job = "ingest" => Cardinality({k \in DOMAIN progress : IsLinkedKey(k)}) <= LinkBudget

\* What an ingest may take from the case: a file of the platform that it lists no
\* more, and a linked document it met again while reading a file the case no longer
\* held as read (withdrawn by one listing, listed again).
Root(key) == ListedKey(key[1])
MayGo(key) ==
    IF Len(key) = 1 THEN key \notin seen
    ELSE IsLinkedKey(key) /\ key \in seen /\ Root(key) \notin Hashed(documents)

\* Every other document once read stays with the case: a listed file and what was
\* found in it, whatever this job failed to fetch, had no budget for or read again;
\* and what was found in a file the platform has withdrawn.
ReadStaysRead ==
    [][FinishJob /\ job = "ingest" =>
          \A k \in Hashed(documents) : MayGo(k) \/ k \in Hashed(documents')]_ingestVars

\* ... and so it does when the stored files are read again.
ReindexKeepsRead == [][FinishJob => Hashed(documents) \subseteq Hashed(documents')]_ingestVars
=============================================================================
