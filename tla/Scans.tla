------------------------------- MODULE Scans -------------------------------
\* What a background pass reads, part by part: every behaviour follows one of the
\* three scans of the registries ("phrase", "subject", "registry"), the window of
\* the default source over many passes ("window", module Discovery), or the followed
\* cases ("rota", module WatchRota), chosen at the start (`scan`). The scans share no
\* state in the program; here they share the names of their variables. They are
\* instances of the modules that prove what holds of them.
EXTENDS Discovery, WatchRota

CONSTANTS
    Scans,                       \* the parts that are followed
    Procedures, PageSize, Floor, \* of every scan: the rows, its page, the watermark
    Questions, SiteLists, PhraseLimit, PhrasePages, PhraseEvents,
    Subjects, Filtered, Titled, SubjectLimit, SubjectPages, SubjectEvents,
    Tables, DayOf, Matching, RegistryLimit, RegistryPages, RegistryEvents,
    DeepLimit, DeepPages, DeepEvents

VARIABLES scan, token, call, events, owed, got, slipped, closed,
          found, query, window, passed, stale, torn, narrow, table, cut

Phrase == INSTANCE PhraseScanProofs WITH
    Rows <- Procedures, Listings <- SiteLists, Limit <- PhraseLimit, Events <- PhraseEvents

Subject == INSTANCE SubjectScanProofs WITH
    Rows <- Procedures, Registries <- Filtered, Limit <- SubjectLimit, MaxSearchPages <- SubjectPages,
    Events <- SubjectEvents

\* One answer of the registry scan has room for what is listed, or fills up.
Registry == INSTANCE RegistryScanProofs WITH
    Rows <- Procedures, registry <- table, Registries <- Tables, Limit <- RegistryLimit,
    MaxSearchPages <- RegistryPages, Events <- RegistryEvents
Deep == INSTANCE RegistryScanProofs WITH
    Rows <- Procedures, registry <- table, Registries <- Tables, Limit <- DeepLimit,
    MaxSearchPages <- DeepPages, Events <- DeepEvents

ASSUME ScansBounds == /\ Phrase!ScanBounds /\ Subject!SubjectBounds /\ Registry!RegistryBounds
                      /\ Deep!RegistryBounds

subjectOnly == <<window, passed, stale, torn, narrow>>
scanVars    == <<token, call, events, owed, got, slipped, closed, found, query,
                 subjectOnly, table, cut>>
scansVars   == <<scan, scanVars, vars, rotaVars>>

NotPhrase   == window = {} /\ passed = {} /\ stale = {} /\ torn = {} /\ narrow = {} /\ table = <<>>
NotSubject  == cut = {} /\ table = <<>>
NotRegistry == window = {} /\ passed = {} /\ stale = {} /\ torn = {} /\ narrow = {}
               /\ found = <<>> /\ query = <<>>
NoScan      == /\ token = <<>> /\ call = <<>> /\ events = 0 /\ owed = {} /\ got = {}
               /\ slipped = {} /\ closed = TRUE /\ NotRegistry /\ NotSubject
NoWindow    == /\ now = 0 /\ registry = [l \in Lanes |-> <<>>] /\ pass = NoPass
               /\ cabinet = [NewCabinet(0) EXCEPT !.watermark = 0]
               /\ saved = cabinet /\ faults = 0
NoRota      == /\ lists = "rows" /\ gone = {} /\ followed = {} /\ memory = <<>> /\ rows = <<>>
               /\ round = Resting /\ spent = <<>> /\ patient = "a" /\ passedBy = NobodyYet
               /\ unsaved = FALSE

\* A part that is not followed stands still, with nothing left to do.
ScansInit ==
    /\ scan \in Scans
    /\ \/ scan = "phrase"   /\ Phrase!Init   /\ NotPhrase   /\ NoWindow /\ NoRota
       \/ scan = "subject"  /\ Subject!Init  /\ NotSubject  /\ NoWindow /\ NoRota
       \/ scan = "registry" /\ Registry!Init /\ NotRegistry /\ NoWindow /\ NoRota
       \/ scan = "deep"     /\ Deep!Init     /\ NotRegistry /\ NoWindow /\ NoRota
       \/ scan = "window"   /\ Init          /\ NoScan /\ NoRota
       \/ scan = "rota"     /\ RotaInit      /\ NoScan /\ NoWindow

OfScan(A)   == A /\ UNCHANGED <<scan, vars, rotaVars>>
OfWindow(A) == scan = "window" /\ A /\ UNCHANGED <<scan, scanVars, rotaVars>>
OfRota(A)   == scan = "rota" /\ A /\ UNCHANGED <<scan, scanVars, vars>>

PhraseNext   == scan = "phrase"   /\ OfScan(Phrase!Next /\ UNCHANGED <<subjectOnly, table>>)
SubjectNext  == scan = "subject"  /\ OfScan(Subject!Next /\ UNCHANGED <<cut, table>>)
RegistryNext == scan = "registry" /\ OfScan(Registry!Next /\ UNCHANGED <<subjectOnly, found, query>>)
DeepNext     == scan = "deep"     /\ OfScan(Deep!Next /\ UNCHANGED <<subjectOnly, found, query>>)
WindowNext   == OfWindow(Next)
RotaSteps    == OfRota(RotaNext)
ScansNext == PhraseNext \/ SubjectNext \/ RegistryNext \/ DeepNext \/ WindowNext \/ RotaSteps

PhraseReading   == scan = "phrase"   /\ OfScan(Phrase!Reading /\ UNCHANGED <<subjectOnly, table>>)
SubjectReading  == scan = "subject"  /\ OfScan(Subject!Reading /\ UNCHANGED <<cut, table>>)
RegistryReading == scan = "registry" /\ OfScan(Registry!Reading /\ UNCHANGED <<subjectOnly, found, query>>)

\* A call of a scan ends (its timeout); the timer starts the passes again and
\* again, and each goes on to its end (see module Discovery).
Onward ==
    \/ PhraseReading \/ SubjectReading \/ RegistryReading
    \/ OfWindow(StartPass) \/ OfWindow(ReadPage)
    \/ OfWindow(RecordClosedWindow) \/ OfWindow(RecordHeldWindow)
    \/ OfRota(PassStep)
ScansSpec == ScansInit /\ [][ScansNext]_scansVars /\ WF_scansVars(Onward)

----------------------------------------------------------------------------
\* Types of the part that runs.
TypesOK ==
    /\ scan = "phrase"   => Phrase!TypeOK
    /\ scan = "subject"  => Subject!TypeOK
    /\ scan = "registry" => Registry!TypeOK
    /\ scan = "deep"     => Deep!TypeOK
    /\ scan = "window"   => TypeOK
    /\ scan = "rota"     => RotaTypeOK

\* Each scan of a registry implements the reading of module WindowRead: a window is called
\* read only when all of it was handed over, but for the named losses.
Promise == INSTANCE WindowRead WITH
    Row     <- Procedures,
    window  <- IF scan = "phrase" THEN Phrase!Owed ELSE owed,
    closed  <- closed /\ scan \notin {"window", "rota"},
    dropped <- IF scan = "subject" THEN UNION {passed, stale, torn, slipped, narrow}
               ELSE cut \union slipped
WindowIsRead == Promise!Spec

\* The place a reading goes on from is never below an unread row: for one phrase
\* the anchor of the subject search passes no row over, and with one source a window
\* is not closed over an unread head.
PlacesAreKept ==
    /\ TypesOK
    /\ scan = "subject" => Subject!OnePhraseKeepsItsAnchor
    /\ scan = "window" => OneSourceReadsTheHead

\* The cursor of the registry scan moves down or stays, but for answers that
\* overflow, of which the second instance has many.
CursorNeverRewinds ==
    [][/\ scan = "registry" => Registry!CursorMovesDown
       /\ scan = "deep" => Deep!CursorMovesDown]_scansVars
=============================================================================
