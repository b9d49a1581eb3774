----------------------------- MODULE TelegramBot -----------------------------
\* The Telegram bot (apps/api/src/telegram.ts, packages/db/src/telegram-store.ts
\* and the polling loop of main.ts): chats are linked by one-time codes, new
\* inbox events are announced, and a tap on a button decides a case.  Telegram
\* hands an update out again until a later poll confirms it, so a restart
\* between handling and confirming brings it back.
EXTENDS Naturals, Sequences, FiniteSets, SequencesExt

CONSTANTS
    Users, Chats,
    Codes,            \* one-time link codes; CodeOf says whose they are
    CodeOf,
    Owner,            \* the user whose cabinet the events and the case belong to
    Events, Urgent,   \* inbox events of that cabinet, and the urgent ones
    Kinds,            \* decisions a button offers
    UpdatesMax,       \* bound on what is written to the bot
    Restarts          \* bound on restarts

ASSUME BotConstants == CodeOf \in [Codes -> Users] /\ Restarts \in Nat

VARIABLES
    links,      \* table: user -> [chat, mode]
    codes,      \* table: live codes
    sent,       \* table: announced events
    rows,       \* table: inbox events stored
    decided,    \* table: the decision of the case
    known,      \* memory: inbox events recorded
    pending,    \* memory: the chain of announcements
    announcing, \* the announcement under way
    decision,   \* memory: the decision of the case
    posted,     \* at Telegram: all updates
    confirmed,  \* at Telegram: how many are confirmed
    batch,      \* memory: last update of the answered poll
    offset,     \* memory: updates handled, the offset of the next poll
    handler,    \* the update being handled
    restarts,
    arrived,    \* history: announcements that reached a chat
    handled,    \* history: updates whose handling ended
    linkedBy    \* history: what each code has linked

tableVars  == <<links, codes, sent, rows, decided>>
pollVars   == <<confirmed, batch, offset, handler>>
noticeVars == <<known, pending, announcing, arrived>>
telegramVars == <<tableVars, noticeVars, decision, posted, pollVars, restarts, handled, linkedBy>>

Nothing == "none"
Idle == [step |-> "idle"]
Updates == [verb : {"start"}, chat : Chats, code : Codes]
           \union [verb : {"stop", "urgent", "all"}, chat : Chats]
           \union [verb : {"tap"}, chat : Chats, kind : Kinds]

LinkOfChat(chat) == {u \in DOMAIN links : links[u].chat = chat}
Without(f, u) == [v \in DOMAIN f \ {u} |-> f[v]]

\* Somebody writes to the bot or taps a button of an earlier message.
PostUpdate(update) ==
    /\ Len(posted) < UpdatesMax /\ posted' = Append(posted, update)
    /\ UNCHANGED <<tableVars, noticeVars, decision, pollVars, restarts, handled, linkedBy>>

----------------------------------------------------------------------------
PollConfirmingAll ==
    /\ handler = Idle /\ offset = batch
    /\ confirmed' = Len(posted) /\ batch' = Len(posted)
    /\ offset' = (IF offset > confirmed THEN offset ELSE confirmed)
    /\ UNCHANGED <<tableVars, noticeVars, decision, posted, handler, restarts, handled, linkedBy>>

\* getUpdates: the offset confirms what came before it, the answer is the rest.
Poll ==
    /\ handler = Idle /\ offset = batch
    /\ confirmed' = (IF offset > confirmed THEN offset ELSE confirmed)
    /\ batch' = Len(posted)
    /\ offset' = (IF offset > confirmed THEN offset ELSE confirmed)
    /\ UNCHANGED <<tableVars, noticeVars, decision, posted, handler, restarts, handled, linkedBy>>

Take ==
    /\ handler = Idle /\ offset < batch
    /\ handler' = [step |-> posted[offset + 1].verb, update |-> posted[offset + 1]]
    /\ UNCHANGED <<tableVars, noticeVars, decision, posted, confirmed, batch, offset, restarts, handled, linkedBy>>

\* handleUpdate never throws: whatever happened, the offset moves on.
Done ==
    /\ handler' = Idle /\ offset' = offset + 1 /\ handled' = handled \union {offset + 1}
    /\ UNCHANGED <<batch, confirmed>>

Goto(step) == handler' = [handler EXCEPT !.step = step]
Stays == UNCHANGED <<batch, confirmed, offset, handled>>

\* consumeLinkCode: one DELETE ... RETURNING; a dead code links nothing.
ConsumedWithoutDelete(code) == codes
Consumed(code) == codes \ {code}

Start ==
    /\ handler.step = "start"
    /\ codes' = Consumed(handler.update.code)
    /\ IF handler.update.code \in codes
       THEN Goto("link") /\ Stays
       ELSE Done
    /\ UNCHANGED <<links, sent, rows, decided, noticeVars, decision, posted, restarts, linkedBy>>

\* upsertLink inserts or updates the user's row, then deletes another user's row
\* of the same chat; the chat is unique in the table, so the first statement
\* fails while that row is there.
Link ==
    LET user == CodeOf[handler.update.code]
        chat == handler.update.chat
    IN  /\ handler.step = "link"
        /\ IF LinkOfChat(chat) \subseteq {user}
           THEN /\ links' = [u \in DOMAIN links \union {user} |->
                               IF u = user
                               THEN [chat |-> chat, mode |-> IF u \in DOMAIN links THEN links[u].mode ELSE "all"]
                               ELSE links[u]]
                /\ linkedBy' = [linkedBy EXCEPT ![handler.update.code] = Append(@, chat)]
           ELSE UNCHANGED <<links, linkedBy>>
        /\ Done
        /\ UNCHANGED <<codes, sent, rows, decided, noticeVars, decision, posted, restarts>>

CommandOfLinkedChats ==
    /\ handler.step \in {"stop", "urgent", "all"} /\ LinkOfChat(handler.update.chat) # {}
    /\ handler' = [step |-> "set", verb |-> handler.step,
                   user |-> CHOOSE u \in LinkOfChat(handler.update.chat) : TRUE]
    /\ Stays
    /\ UNCHANGED <<tableVars, noticeVars, decision, posted, restarts, linkedBy>>

\* The commands of a linked chat; each reads the link and then writes it.
Command ==
    /\ handler.step \in {"stop", "urgent", "all"}
    /\ IF LinkOfChat(handler.update.chat) = {}
       THEN Done
       ELSE /\ handler' = [step |-> "set", verb |-> handler.step,
                           user |-> CHOOSE u \in LinkOfChat(handler.update.chat) : TRUE]
            /\ Stays
    /\ UNCHANGED <<tableVars, noticeVars, decision, posted, restarts, linkedBy>>

SetLink ==
    /\ handler.step = "set"
    /\ links' = IF handler.user \notin DOMAIN links THEN links
                ELSE IF handler.verb = "stop" THEN Without(links, handler.user)
                ELSE [links EXCEPT ![handler.user].mode = handler.verb]
    /\ Done
    /\ UNCHANGED <<codes, sent, rows, decided, noticeVars, decision, posted, restarts, linkedBy>>

\* A tap: the chat's owner, then decideForWorkspace looks at the decision ...
Tap ==
    /\ handler.step = "tap"
    /\ IF LinkOfChat(handler.update.chat) = {Owner}
       THEN Goto("look") /\ Stays
       ELSE Done
    /\ UNCHANGED <<tableVars, noticeVars, decision, posted, restarts, linkedBy>>

Look ==
    /\ handler.step = "look"
    /\ IF decision = Nothing THEN Goto("decide") /\ Stays ELSE Done
    /\ UNCHANGED <<tableVars, noticeVars, decision, posted, restarts, linkedBy>>

\* ... and applyTriageDecision reads the card again before it records its own.
TapDecides ==
    /\ handler.step = "decide"
    /\ decision' = handler.update.kind
    /\ Goto("store") /\ Stays
    /\ UNCHANGED <<tableVars, noticeVars, posted, restarts, linkedBy>>

Store ==
    /\ handler.step = "store"
    /\ decided' = decision
    /\ Done
    /\ UNCHANGED <<links, codes, sent, rows, noticeVars, decision, posted, restarts, linkedBy>>

Handle == Start \/ Link \/ Command \/ SetLink \/ Tap \/ Look \/ TapDecides \/ Store

----------------------------------------------------------------------------
\* recordInbox: a row not known before is recorded and queued for the chat.
Record(e) ==
    /\ e \notin known
    /\ known' = known \union {e} /\ pending' = Append(pending, e)
    /\ UNCHANGED <<tableVars, announcing, arrived, decision, posted, pollVars, restarts, handled, linkedBy>>

SaveInbox ==
    /\ rows # known /\ rows' = known
    /\ UNCHANGED <<links, codes, sent, decided, noticeVars, decision, posted, pollVars, restarts, handled, linkedBy>>

\* notifyInbox, one at a time in each cabinet: the link, the marker, the message.
ReadLink ==
    /\ announcing = Idle /\ pending # <<>>
    /\ LET e == Head(pending)
           wanted == /\ Owner \in DOMAIN links
                     /\ links[Owner].mode = "urgent" => e \in Urgent
       IN  announcing' = IF wanted
                         THEN [step |-> "mark", event |-> e, chat |-> links[Owner].chat]
                         ELSE Idle
    /\ pending' = Tail(pending)
    /\ UNCHANGED <<tableVars, known, arrived, decision, posted, pollVars, restarts, handled, linkedBy>>

\* The marker goes in before the message, so that a restart between the two
\* leaves the event unannounced rather than announced again.
MarkSentUnwritten ==
    /\ announcing.step = "mark"
    /\ announcing' = IF announcing.event \in sent THEN Idle ELSE [announcing EXCEPT !.step = "send"]
    /\ UNCHANGED <<tableVars, known, pending, arrived, decision, posted, pollVars, restarts, handled, linkedBy>>

MarkSent ==
    /\ announcing.step = "mark"
    /\ sent' = sent \union {announcing.event}
    /\ announcing' = IF announcing.event \in sent THEN Idle ELSE [announcing EXCEPT !.step = "send"]
    /\ UNCHANGED <<links, codes, rows, decided, known, pending, arrived, decision, posted, pollVars, restarts, handled, linkedBy>>

Send ==
    /\ announcing.step = "send"
    /\ \/ arrived' = Append(arrived, [event |-> announcing.event, chat |-> announcing.chat])
       \/ UNCHANGED arrived
    /\ announcing' = Idle
    /\ UNCHANGED <<tableVars, known, pending, decision, posted, pollVars, restarts, handled, linkedBy>>

----------------------------------------------------------------------------
\* The console beside the bot: a decision of its own, and an unlinked chat.
ConsoleDecides(kind) ==
    /\ decision # kind
    /\ decision' = kind /\ decided' = kind
    /\ UNCHANGED <<links, codes, sent, rows, noticeVars, posted, pollVars, restarts, handled, linkedBy>>

ConsoleUnlinks(user) ==
    /\ user \in DOMAIN links /\ links' = Without(links, user)
    /\ UNCHANGED <<codes, sent, rows, decided, noticeVars, decision, posted, pollVars, restarts, handled, linkedBy>>

CodeExpires(code) ==
    /\ code \in codes /\ codes' = codes \ {code}
    /\ UNCHANGED <<links, sent, rows, decided, noticeVars, decision, posted, pollVars, restarts, handled, linkedBy>>

\* The process starts again: what it announced or handled is in the tables or
\* at Telegram, and nowhere else.
BotRestart ==
    /\ restarts < Restarts /\ restarts' = restarts + 1
    /\ known' = rows /\ pending' = <<>> /\ announcing' = Idle /\ decision' = decided
    /\ batch' = 0 /\ offset' = 0 /\ handler' = Idle
    /\ UNCHANGED <<tableVars, arrived, posted, confirmed, handled, linkedBy>>

TelegramInit ==
    /\ links = <<>> /\ codes = Codes /\ sent = {} /\ rows = {} /\ decided = Nothing
    /\ known = {} /\ pending = <<>> /\ announcing = Idle /\ decision = Nothing
    /\ posted = <<>> /\ confirmed = 0 /\ batch = 0 /\ offset = 0 /\ handler = Idle
    /\ restarts = 0 /\ arrived = <<>> /\ handled = {} /\ linkedBy = [c \in Codes |-> <<>>]

TelegramNext ==
    \/ \E u \in Updates : PostUpdate(u)
    \/ Poll \/ Take \/ Handle
    \/ \E e \in Events : Record(e)
    \/ SaveInbox \/ ReadLink \/ MarkSent \/ Send
    \/ \E k \in Kinds : ConsoleDecides(k)
    \/ \E u \in Users : ConsoleUnlinks(u)
    \/ \E c \in Codes : CodeExpires(c)
    \/ BotRestart

TelegramSpec == TelegramInit /\ [][TelegramNext]_telegramVars

----------------------------------------------------------------------------
TelegramTypeOK ==
    /\ DOMAIN links \subseteq Users /\ codes \subseteq Codes
    /\ \A u \in DOMAIN links : links[u].chat \in Chats /\ links[u].mode \in {"all", "urgent"}
    /\ rows \union sent \union known \union ToSet(pending) \subseteq Events
    /\ {decision, decided} \subseteq Kinds \union {Nothing}
    /\ confirmed <= Len(posted) /\ offset <= batch
    /\ batch <= Len(posted) /\ restarts \in 0..Restarts
    /\ \A u, v \in DOMAIN links : links[u].chat = links[v].chat => u = v

\* An event reaches the chat at most once, over restarts and lost inbox rows.
AnnouncedOnce ==
    \A i, j \in 1..Len(arrived) : arrived[i].event = arrived[j].event => i = j

\* Telegram forgets an update only after the bot is through with it.
NoUpdateIsLost == 1..confirmed \subseteq handled

\* An event is announced in Telegram at most once, over restarts and lost rows, and
\* Telegram is told to forget an update only after it was handled (pollOnce).
ToldOnceHandledOnce == AnnouncedOnce /\ NoUpdateIsLost

\* A code links one chat, however often its /start comes back.
CodeLinksOnce == \A c \in Codes : Len(linkedBy[c]) <= 1

\* A live code its chat sends links that chat: "a re-linked chat replaces the old
\* row's ownership rather than shadowing it".
LiveCodeLinks ==
    [][handler.step = "link" /\ handler' = Idle /\ restarts' = restarts =>
         LET user == CodeOf[handler.update.code]
         IN  user \in DOMAIN links' /\ links'[user].chat = handler.update.chat]_telegramVars

\* A decision made in the console stands against a button tapped before it.
TapNeverFlips ==
    [][handler.step = "decide" /\ handler'.step = "store" => decision = Nothing]_telegramVars

\* Whatever is written to the bot is handled in the end.
UpdatesAreHandled == \A n \in 1..UpdatesMax : Len(posted) >= n ~> n \in handled
=============================================================================
