----------------------------- MODULE CaseLists -----------------------------
\* The lists of the cases in the web console, «Мои закупки» and the trash
\* (apps/web/src/procurements/MyProcurementsApp.tsx, wired in SpecialistApp.tsx):
\* a tab is loaded on every visit, an action is shown before the server has
\* answered, answers come late or never. A card is where the server has it.
EXTENDS Naturals, FiniteSets

CONSTANTS ListCards, LoadsMax, ActionsMax, LinkFaults   \* bounds on loads, actions, faults

ASSUME ListsAssumption == LoadsMax \in Nat \ {0}

VARIABLES
    place,      \* the server: card -> "mine", "archive", "trash" or "gone"
    version,    \* changes the server made
    lists,      \* tab -> how far it is loaded, its cards, the version it was read at
    tab, generation, refreshing,
    loads,      \* loads under way
    actions,    \* actions under way
    asked,      \* actions begun so far
    linkFaults

listVars == <<place, version, lists, tab, generation, refreshing, loads, actions, asked, linkFaults>>
serverVars == <<place, version>>

Tabs == {"mine", "archive", "trash"}
Places == Tabs \union {"gone"}
Unset == [kind |-> "unset", items |-> <<>>, read |-> 0]
HasItems(l) == l.kind \in {"ready", "stale"}

\* The page of a tab, and the cards a tab shows of what it holds.
Page(t) == [c \in {c \in ListCards : place[c] = t} |-> t]
Shown == IF HasItems(lists[tab])
         THEN {c \in DOMAIN lists[tab].items : lists[tab].items[c] = tab} ELSE {}
Less(items, gone) == [c \in DOMAIN items \ gone |-> items[c]]
Moved(items, c, p) == [d \in DOMAIN items |-> IF d = c THEN p ELSE items[d]]

\* patchItems: every tab that holds cards.
Patch(Change(_)) ==
    lists' = [t \in Tabs |-> IF HasItems(lists[t])
                             THEN [lists[t] EXCEPT !.items = Change(@)] ELSE lists[t]]

\* runListLoad: a tab without cards says it is loading; the load gets the next
\* generation.
Load(t, g) ==
    /\ g <= LoadsMax
    /\ generation' = g /\ refreshing' = TRUE
    /\ lists' = [lists EXCEPT ![t] = IF HasItems(@) THEN @ ELSE [@ EXCEPT !.kind = "loading"]]
    /\ loads' = loads \union {[gen |-> g, tab |-> t, pc |-> "asked", items |-> <<>>, read |-> 0]}

\* Another tab is opened: the effect is cleaned up, which spends a generation.
Open(t) ==
    /\ t # tab /\ tab' = t
    /\ Load(t, generation + 2)
    /\ UNCHANGED <<serverVars, actions, asked, linkFaults>>

Retry ==
    /\ lists[tab].kind = "error" \/ (lists[tab].kind = "stale" /\ ~ refreshing)
    /\ Load(tab, generation + 1)
    /\ UNCHANGED <<serverVars, tab, actions, asked, linkFaults>>

ServerReads(l) ==
    /\ l.pc = "asked"
    /\ loads' = (loads \ {l}) \union
         {[gen |-> l.gen, tab |-> l.tab, pc |-> "read", items |-> Page(l.tab), read |-> version]}
    /\ UNCHANGED <<serverVars, lists, tab, generation, refreshing, actions, asked, linkFaults>>

DeliveredAnyway(l) ==
    /\ lists' = [lists EXCEPT ![l.tab] = [kind |-> "ready", items |-> l.items, read |-> l.read]]
    /\ refreshing' = IF l.gen = generation THEN FALSE ELSE refreshing
DeliveredClearing(l) ==
    /\ refreshing' = FALSE
    /\ IF l.gen = generation
       THEN lists' = [lists EXCEPT ![l.tab] = [kind |-> "ready", items |-> l.items, read |-> l.read]]
       ELSE UNCHANGED lists
\* The answer of a load; an old generation is dropped.
Delivered(l) ==
    IF l.gen = generation
    THEN /\ lists' = [lists EXCEPT ![l.tab] = [kind |-> "ready", items |-> l.items, read |-> l.read]]
         /\ refreshing' = FALSE
    ELSE UNCHANGED <<lists, refreshing>>

Answered(l) ==
    /\ l.pc = "read" /\ Delivered(l)
    /\ loads' = loads \ {l}
    /\ UNCHANGED <<serverVars, tab, generation, actions, asked, linkFaults>>

DegradedToError(l) ==
    IF l.gen = generation
    THEN lists' = [lists EXCEPT ![l.tab].kind = "error"] /\ refreshing' = FALSE
    ELSE UNCHANGED <<lists, refreshing>>
\* A failed refresh keeps the last good page as "stale".
Degraded(l) ==
    IF l.gen = generation
    THEN /\ lists' = [lists EXCEPT ![l.tab].kind = IF HasItems(lists[l.tab]) THEN "stale" ELSE "error"]
         /\ refreshing' = FALSE
    ELSE UNCHANGED <<lists, refreshing>>

LoadFails(l) ==
    /\ linkFaults > 0 /\ linkFaults' = linkFaults - 1
    /\ Degraded(l)
    /\ loads' = loads \ {l}
    /\ UNCHANGED <<serverVars, tab, generation, actions, asked>>

----------------------------------------------------------------------------
\* What the server makes of an action; one it refuses changes nothing.
Outcome(op, c) ==
    CASE op = "remove"  /\ place[c] \in {"mine", "archive"} -> "trash"
      [] op = "restore" /\ place[c] = "trash" -> "mine"
      [] op = "purge"   /\ place[c] = "trash" -> "gone"
      [] op = "archive" /\ place[c] = "mine" -> "archive"
      [] op = "return"  /\ place[c] = "archive" -> "mine"
      [] OTHER -> place[c]
Refused(a) ==
    \/ a.op \in {"restore", "purge"} /\ place[a.card] # "trash"
    \/ a.op \in {"remove", "archive", "return"} /\ place[a.card] = "gone"

Ops(t) == CASE t = "mine" -> {"archive", "remove"} [] t = "archive" -> {"return", "remove"}
            [] t = "trash" -> {"restore", "purge"}
Drops(op) == op \in {"remove", "restore", "purge", "empty"}

\* runCardAction: a card leaves every list at once, but for an archiving; the
\* pending key keeps a second press out.
Begin(c, op) ==
    /\ asked < ActionsMax /\ asked' = asked + 1
    /\ c \in Shown /\ op \in Ops(tab)
    /\ \A a \in actions : ~ (a.card = c /\ a.op = op)
    /\ actions' = actions \union
         {[n |-> asked, card |-> c, op |-> op, tab |-> tab, snapshot |-> lists[tab].items, pc |-> "sent"]}
    /\ IF Drops(op) THEN Patch(LAMBDA items : Less(items, {c})) ELSE UNCHANGED lists
    /\ UNCHANGED <<serverVars, tab, generation, refreshing, loads, linkFaults>>

\* runEmptyTrash: what the lists hold of the trash goes.
BeginEmpty ==
    /\ asked < ActionsMax /\ asked' = asked + 1
    /\ tab = "trash" /\ Shown # {}
    /\ \A a \in actions : a.op # "empty"
    /\ \E c \in Shown : actions' = actions \union
         {[n |-> asked, card |-> c, op |-> "empty", tab |-> "trash", snapshot |-> lists[tab].items, pc |-> "sent"]}
    /\ Patch(LAMBDA items : Less(items, {c \in DOMAIN items : items[c] = "trash"}))
    /\ UNCHANGED <<serverVars, tab, generation, refreshing, loads, linkFaults>>

ServerActs(a) ==
    /\ a.pc = "sent" /\ ~ Refused(a)
    /\ place' = IF a.op = "empty"
                THEN [c \in ListCards |-> IF place[c] = "trash" THEN "gone" ELSE place[c]]
                ELSE [place EXCEPT ![a.card] = Outcome(a.op, a.card)]
    /\ version' = version + 1
    /\ actions' = (actions \ {a}) \union {[a EXCEPT !.pc = "done"]}
    /\ UNCHANGED <<lists, tab, generation, refreshing, loads, asked, linkFaults>>

\* An archiving is shown when it was answered, in every list that has the card.
Succeeds(a) ==
    /\ a.pc = "done"
    /\ actions' = actions \ {a}
    /\ IF a.op \in {"archive", "return"}
       THEN Patch(LAMBDA items : Moved(items, a.card, IF a.op = "archive" THEN "archive" ELSE "mine"))
       ELSE UNCHANGED lists
    /\ UNCHANGED <<serverVars, tab, generation, refreshing, loads, asked, linkFaults>>

\* restoreItems: the list the action came from is what it was when it began;
\* the parent does not wait for a removal, whose failure nobody sees.
Restored(a) ==
    IF Drops(a.op) /\ a.op # "remove" /\ HasItems(lists[a.tab])
    THEN lists' = [lists EXCEPT ![a.tab].items = a.snapshot]
    ELSE UNCHANGED lists

\* The server refuses, or the request or its answer is lost.
Fails(a) ==
    /\ \/ a.pc = "sent" /\ Refused(a) /\ UNCHANGED linkFaults
       \/ linkFaults > 0 /\ linkFaults' = linkFaults - 1
    /\ actions' = actions \ {a}
    /\ Restored(a)
    /\ UNCHANGED <<serverVars, tab, generation, refreshing, loads, asked>>

ListsInit ==
    /\ place \in [ListCards -> {"mine", "trash"}] /\ version = 1
    /\ tab = "mine" /\ generation = 1 /\ refreshing = TRUE
    /\ lists = [t \in Tabs |-> IF t = "mine" THEN [Unset EXCEPT !.kind = "loading"] ELSE Unset]
    /\ loads = {[gen |-> 1, tab |-> "mine", pc |-> "asked", items |-> <<>>, read |-> 0]}
    /\ actions = {} /\ asked = 0 /\ linkFaults \in 0..LinkFaults

ListsNext ==
    \/ \E t \in Tabs : Open(t)
    \/ Retry \/ BeginEmpty
    \/ \E l \in loads : ServerReads(l) \/ Answered(l) \/ LoadFails(l)
    \/ \E c \in ListCards, op \in {"archive", "return", "remove", "restore", "purge"} : Begin(c, op)
    \/ \E a \in actions : ServerActs(a) \/ Succeeds(a) \/ Fails(a)

ListsSpec == ListsInit /\ [][ListsNext]_listVars

----------------------------------------------------------------------------
ListsTypeOK ==
    /\ \A c \in ListCards : place[c] \in Places
    /\ \A t \in Tabs : /\ lists[t].kind \in {"unset", "loading", "ready", "stale", "error"}
                       /\ DOMAIN lists[t].items \subseteq ListCards
    /\ tab \in Tabs /\ generation <= LoadsMax /\ refreshing \in BOOLEAN
    /\ \A l \in loads : l.gen <= generation

\* A late answer never takes a list back to an older reading, and a list that
\* once had cards is never without (runListLoad).
ListsMoveForward ==
    [][\A t \in Tabs : /\ lists'[t].read >= lists[t].read
                       /\ HasItems(lists[t]) => HasItems(lists'[t])]_lists

\* The console says it is loading exactly while the load of the open tab is
\* under way, and a tab that has neither cards nor an error is being loaded.
LoadingIsTrue ==
    /\ refreshing <=> \E l \in loads : l.gen = generation
    /\ lists[tab].kind \in {"unset", "loading"} => refreshing

\* The comment of patchItems: a removed card does not linger in another list.
RemovedCardDoesNotLinger ==
    loads = {} /\ actions = {} =>
        \A t \in Tabs, c \in ListCards : place[c] = "gone" => c \notin DOMAIN lists[t].items

\* An action that failed leaves its card in the list it came from.
FailedActionKeepsCard ==
    [][\A a \in actions : (a.pc = "sent" /\ a \notin actions' /\ place' = place
                             /\ [a EXCEPT !.pc = "done"] \notin actions' /\ HasItems(lists[a.tab])) =>
            a.card \in DOMAIN lists'[a.tab].items]_listVars
=============================================================================
