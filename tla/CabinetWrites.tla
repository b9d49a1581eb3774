--------------------------- MODULE CabinetWrites ---------------------------
\* One cabinet in memory and in PostgreSQL (apps/api/src/persist.ts and
\* packages/db/src/specialist-store.ts): its writes go through one chain, each
\* with the image it takes when its turn comes, while the deletion of a profile
\* goes past the chain with a transaction of its own.
EXTENDS Naturals, Sequences, FiniteSets, Functions

CONSTANTS
    Profiles, Cards,
    QueueMax,   \* bound on the writes that wait
    Faults      \* bound on failed writes and restarts

VARIABLES
    mem,        \* the cabinet: profiles, cards (card -> profiles it was found for), decided
    gone,       \* profiles deleted by this process (goneProfiles, deletedProfileIds)
    writes,     \* the chain: the cards each write stores and the decision it answers
    image,      \* what the write in progress took from memory, or NoImage
    deleting,   \* the profile whose deletion is under way, or NoProfile
    db,         \* the rows: profiles, dead (deletedProfileIds of the settings), cards, decided
    faults,
    deleted,    \* history: profiles whose deletion was answered
    acked,      \* history: cards whose decision was answered
    clean       \* history: no write failed since a full one succeeded

vars == <<mem, gone, writes, image, deleting, db, faults, deleted, acked, clean>>

NoProfile == "none"

ASSUME NoProfileIsNone == NoProfile \notin Profiles
ASSUME CabinetBounds == QueueMax \in Nat /\ Faults \in Nat

NoImage == [profiles |-> {}, cards |-> <<>>, decided |-> {}, acks |-> {}, whole |-> FALSE]

Write(cards, acks) == [cards |-> cards, acks |-> acks]
Enqueue(w) == Len(writes) < QueueMax /\ writes' = Append(writes, w)

\* releaseProfileFromCard over the cards of a cabinet: a decision or another
\* profile keeps a card, an undecided card of this profile alone goes.
ReleasedUndecided(cards, p, decided) ==
    LET stays == {c \in DOMAIN cards : cards[c] # {p}}
    IN  [c \in stays |-> cards[c] \ {p}]

Released(cards, p, decided) ==
    LET stays == {c \in DOMAIN cards : cards[c] # {p} \/ c \in decided}
    IN  [c \in stays |-> cards[c] \ {p}]

\* upsertCase never attaches a deleted profile, nor brings back an undecided
\* card that only such a profile had found.
Upserted(cards, c, of) ==
    LET known == IF c \in DOMAIN cards THEN cards[c] ELSE {}
        links == (known \union of) \ gone
    IN  IF links = {} /\ of \intersect gone # {} /\ c \notin DOMAIN cards
        THEN cards
        ELSE [d \in DOMAIN cards \union {c} |-> IF d = c THEN links ELSE cards[d]]

\* A pass of profile p, of before or after its deletion, stores a hit and saves
\* the cabinet.
Find(p, c) ==
    /\ p \in mem.profiles \union gone
    /\ mem' = [mem EXCEPT !.cards = Upserted(@, c, {p})]
    /\ Enqueue(Write(Cards, {}))
    /\ UNCHANGED <<gone, image, deleting, db, faults, deleted, acked, clean>>

\* A decision reads the card from the rows when the process has not got it.
Decide(c) ==
    /\ c \in DOMAIN mem.cards \union DOMAIN db.cards
    /\ mem' = [mem EXCEPT !.decided = @ \union {c},
                          !.cards = [d \in DOMAIN @ \union {c} |->
                              IF d \in DOMAIN @ THEN @[d] ELSE db.cards[d] \ gone]]
    /\ Enqueue(Write(Cards, {c}))
    /\ UNCHANGED <<gone, image, deleting, db, faults, deleted, acked, clean>>

\* A new profile: only the workspace is written.
Create(p) ==
    /\ p \notin mem.profiles \union gone \union db.profiles \union db.dead
    /\ mem' = [mem EXCEPT !.profiles = @ \union {p}]
    /\ Enqueue(Write({}, {}))
    /\ UNCHANGED <<gone, image, deleting, db, faults, deleted, acked, clean>>

\* DELETE /api/profiles/:id, up to its transaction; the last profile stays.
Delete(p) ==
    /\ p \in mem.profiles /\ mem.profiles # {p} /\ deleting = NoProfile
    /\ mem' = [mem EXCEPT !.profiles = @ \ {p}, !.cards = Released(@, p, mem.decided)]
    /\ gone' = gone \union {p}
    /\ deleting' = p
    /\ UNCHANGED <<writes, image, db, faults, deleted, acked, clean>>

\* deleteWorkspaceProfile: the rows lose the profile and its undecided cards, and
\* the settings remember it.
DeleteCommits ==
    /\ deleting # NoProfile
    /\ db' = [db EXCEPT !.profiles = @ \ {deleting}, !.dead = @ \union {deleting},
                        !.cards = Released(@, deleting, mem.decided)]
    /\ deleted' = deleted \union {deleting}
    /\ deleting' = NoProfile
    /\ UNCHANGED <<mem, gone, writes, image, faults, acked, clean>>

DeleteFails ==
    /\ deleting # NoProfile /\ faults < Faults
    /\ faults' = faults + 1 /\ clean' = FALSE
    /\ image' = [image EXCEPT !.whole = FALSE]
    /\ deleting' = NoProfile
    /\ UNCHANGED <<mem, gone, writes, db, deleted, acked>>

\* The next write takes its image, scrubbed of deleted profiles, and copies it
\* to disk before its transaction.
TakeImage ==
    /\ writes # <<>> /\ image = NoImage
    /\ image' = [profiles |-> mem.profiles \ gone,
                 cards    |-> Restrict(mem.cards, DOMAIN mem.cards \intersect Head(writes).cards),
                 decided  |-> mem.decided,
                 acks     |-> Head(writes).acks,
                 whole    |-> Head(writes).cards = Cards]
    /\ writes' = Tail(writes)
    /\ UNCHANGED <<mem, gone, deleting, db, faults, deleted, acked, clean>>

\* writeWorkspaceState: the rows become the image's, but for deleted profiles.
StoredOverTombstones(i) == i.profiles
StoredByInsertion(i) == db.profiles \union (i.profiles \ db.dead)
StoredProfiles(i) == i.profiles \ db.dead

\* saveCabinet: one transaction. A save without a living profile is refused.
ImageCommits ==
    /\ image # NoImage /\ image.profiles \ db.dead # {}
    /\ db' = [db EXCEPT !.profiles = StoredProfiles(image),
                        !.cards = [c \in DOMAIN image.cards \union DOMAIN @ |->
                                     IF c \in DOMAIN image.cards THEN image.cards[c] ELSE @[c]],
                        !.decided = @ \union image.decided]
    /\ acked' = acked \union image.acks
    /\ clean' = (clean \/ image.whole)
    /\ image' = NoImage
    /\ UNCHANGED <<mem, gone, writes, deleting, faults, deleted>>

ImageFails ==
    /\ image # NoImage
    /\ \/ faults < Faults /\ faults' = faults + 1
       \/ image.profiles \subseteq db.dead /\ UNCHANGED faults
    /\ clean' = FALSE
    /\ image' = NoImage
    /\ UNCHANGED <<mem, gone, writes, deleting, db, deleted, acked>>

\* A restart reads the workspace from the rows, or makes one with a new profile
\* when there is none; cards are read when asked for.
Restart ==
    /\ faults < Faults /\ faults' = faults + 1
    /\ \E first \in Profiles \ db.dead :
          mem' = [profiles |-> IF db.profiles = {} THEN {first} ELSE db.profiles,
                  cards |-> <<>>, decided |-> db.decided]
    /\ gone' = {} /\ writes' = <<>> /\ image' = NoImage /\ deleting' = NoProfile
    /\ clean' = (db.profiles # {})
    /\ UNCHANGED <<db, deleted, acked>>

Init ==
    /\ \E some \in (SUBSET Profiles) \ {{}} :
          /\ mem = [profiles |-> some, cards |-> <<>>, decided |-> {}]
          /\ db = [profiles |-> some, dead |-> {}, cards |-> <<>>, decided |-> {}]
    /\ gone = {} /\ writes = <<>> /\ image = NoImage /\ deleting = NoProfile
    /\ faults = 0 /\ deleted = {} /\ acked = {} /\ clean = TRUE

Next ==
    \/ \E p \in Profiles : Create(p) \/ Delete(p) \/ (\E c \in Cards : Find(p, c))
    \/ \E c \in Cards : Decide(c)
    \/ DeleteCommits \/ DeleteFails \/ TakeImage \/ ImageCommits \/ ImageFails \/ Restart

Spec == Init /\ [][Next]_vars

----------------------------------------------------------------------------
TypeOK ==
    /\ \A side \in {mem, db} : /\ side.profiles \subseteq Profiles /\ side.decided \subseteq Cards
                               /\ DOMAIN side.cards \subseteq Cards
                               /\ \A c \in DOMAIN side.cards : side.cards[c] \subseteq Profiles
    /\ gone \union db.dead \union deleted \subseteq Profiles /\ acked \subseteq Cards
    /\ deleting \in Profiles \union {NoProfile} /\ faults \in 0..Faults
    /\ mem.profiles # {}

\* A profile whose deletion was answered is in no row again, whatever image was
\* on its way and whether or not the process that deleted it still runs.
DeletedStaysDeleted == deleted \intersect db.profiles = {}

\* An answered decision and its card stay, whoever deletes the profile that
\* found the card.
DecidedCardIsKept == acked \subseteq db.decided \intersect DOMAIN db.cards

\* When the chain is at rest after a full write, the rows hold what memory holds.
StoreCatchesUp ==
    writes = <<>> /\ image = NoImage /\ deleting = NoProfile /\ clean =>
        /\ db.profiles = mem.profiles /\ mem.decided = db.decided
        /\ DOMAIN mem.cards \subseteq DOMAIN db.cards

\* An undecided card only a deleted profile had found does not come back.
DroppedCardStaysDropped ==
    \A c \in DOMAIN db.cards \ (mem.decided \union db.decided) :
        db.cards[c] \subseteq deleted => db.cards[c] = {}
=============================================================================
