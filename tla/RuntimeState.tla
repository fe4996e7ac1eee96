---------------------------- MODULE RuntimeState ----------------------------
(***************************************************************************)
(* The durable state of the core (core/storage/sqlite.py) as runtime.py    *)
(* uses it: the committed messages that become the context of later turns, *)
(* and the owner's settings.  Messages are written by worker threads that  *)
(* an interrupted turn leaves behind; a setting is written by the handler  *)
(* of its command, before or after it is in force.                         *)
(***************************************************************************)
EXTENDS Naturals, Sequences, SequencesExt, Selection

CONSTANTS
    Turns,              \* 1 .. n, in the order they are submitted
    Sizes,              \* sizes the messages of each turn may have
    MaximumMessages,    \* maximum_messages of the store
    RecentLimit,        \* messages looked at for a context (12)
    Room,               \* what a context may hold (6,000 characters)
    Values              \* values of a setting

VARIABLES
    at,                 \* where each turn is
    writing,            \* appends that worker threads are at
    messages,           \* committed_messages, by sequence
    context,            \* what a turn gave the model of earlier ones
    completed,          \* turns whose model has completed
    delivered,          \* turns whose answer has been delivered
    running,            \* the settings in force
    stored,             \* the settings of runtime_metadata
    confirmed           \* the settings last reported as set

stateVars == <<at, writing, messages, context, completed, delivered, running,
               stored, confirmed>>
turnState == <<at, writing, messages, context, completed, delivered>>
settings == <<running, stored, confirmed>>

Kinds == {"visual", "language"}     \* audio and lifecycle are as visual
Active == {t \in Turns : at[t] \notin {"next", "ended"}}
To(t, where) == at' = [at EXCEPT ![t] = where]

StateInit ==
    /\ at = [t \in Turns |-> "next"] /\ writing = {} /\ messages = <<>>
    /\ context = [t \in Turns |-> <<>>] /\ completed = {} /\ delivered = {}
    /\ running = [k \in Kinds |-> "default"] /\ stored = running /\ confirmed = running

-----------------------------------------------------------------------------
(* Messages *)

Message == [turn : Turns, role : {"user", "assistant"}, size : UNION {Sizes[t] : t \in Turns}]

\* append: INSERT OR IGNORE, and the oldest go.
Stored(m) == \E i \in DOMAIN messages :
                 messages[i].turn = m.turn /\ messages[i].role = m.role
LastOf(s, n) == SubSeq(s, IF Len(s) > n THEN Len(s) - n + 1 ELSE 1, Len(s))
Appended(m) == IF Stored(m) THEN messages
               ELSE LastOf(Append(messages, m), MaximumMessages)

\* to_thread(self.state.append): the turn waits, the thread is on its own.
Hand(t, role) == \E s \in Sizes[t] :
    writing' = writing \cup {[turn |-> t, role |-> role, size |-> s]}

Submit(t) ==
    /\ at[t] = "next" /\ Active = {} /\ \A u \in Turns : u < t => at[u] = "ended"
    /\ To(t, "asking") /\ Hand(t, "user")
    /\ UNCHANGED <<messages, context, completed, delivered, settings>>

Commit(m) ==
    /\ m \in writing /\ writing' = writing \ {m} /\ messages' = Appended(m)
    /\ at' = [at EXCEPT ![m.turn] = IF @ = "asking" THEN "model"
                                    ELSE IF @ = "storing" THEN "delivery" ELSE @]
    /\ UNCHANGED <<context, completed, delivered, settings>>

\* RuntimeStateError ends the turn.
CommitFails(m) ==
    /\ m \in writing /\ writing' = writing \ {m} /\ To(m.turn, "ended")
    /\ UNCHANGED <<messages, context, completed, delivered, settings>>

\* _conversation_context: from the last message back, until one has no room.
Eligible_All(t) == LastOf(messages, RecentLimit)
Eligible(t) == Only(LastOf(messages, RecentLimit), {m \in Message : m.turn # t})
SizeOf(s) == FoldSeq(LAMBDA m, n : n + m.size, 0, s)
Selected(t) ==
    LET e == Eligible(t)
        fits(n) == SizeOf(LastOf(e, n)) <= Room
        most == CHOOSE n \in 0 .. Len(e) : fits(n) /\ (n < Len(e) => ~fits(n + 1))
    IN LastOf(e, most)

ReadContext(t) ==
    /\ at[t] = "model" /\ To(t, "inference")
    /\ context' = [context EXCEPT ![t] = Selected(t)]
    /\ UNCHANGED <<writing, messages, completed, delivered, settings>>

\* MODEL_COMPLETED is published, then the answer is stored, then it is delivered.
ModelCompletes(t) ==
    /\ at[t] = "inference" /\ completed' = completed \cup {t}
    /\ To(t, "storing") /\ Hand(t, "assistant")
    /\ UNCHANGED <<messages, context, delivered, settings>>

Deliver(t) ==
    /\ at[t] = "delivery" /\ delivered' = delivered \cup {t} /\ To(t, "ended")
    /\ UNCHANGED <<writing, messages, context, completed, settings>>

\* Cancelled or failed, wherever it is; a thread that writes still does.
TurnEnds(t) ==
    /\ t \in Active /\ To(t, "ended")
    /\ UNCHANGED <<writing, messages, context, completed, delivered, settings>>

-----------------------------------------------------------------------------
(* Settings *)

Set(f, k, v) == [f EXCEPT ![k] = v]

\* _set_visual_settings: in force first, then stored; the store may fail.
Confirmed_Anyway(k, v, ok) == confirmed' = Set(confirmed, k, v)
Confirmed(k, v, ok) == confirmed' = IF ok THEN Set(confirmed, k, v) ELSE confirmed

SetVisual(v, ok) ==
    /\ running' = Set(running, "visual", v)
    /\ stored' = IF ok THEN Set(stored, "visual", v) ELSE stored
    /\ Confirmed("visual", v, ok)
    /\ UNCHANGED turnState

\* _set_recognition_language: stored first, and only between two responses.
SetLanguage(v, ok) ==
    /\ Active = {}
    /\ IF ok THEN stored' = Set(stored, "language", v) /\ running' = Set(running, "language", v)
             ELSE UNCHANGED <<stored, running>>
    /\ Confirmed("language", v, ok)
    /\ UNCHANGED turnState

\* The process ends and starts again: threads are gone, the store is what it was.
Restart ==
    /\ at' = [t \in Turns |-> IF t \in Active THEN "ended" ELSE at[t]]
    /\ writing' = {} /\ running' = stored
    /\ UNCHANGED <<messages, context, completed, delivered, stored, confirmed>>

StateNext ==
    \/ \E t \in Turns : \/ Submit(t) \/ ReadContext(t) \/ ModelCompletes(t)
                        \/ Deliver(t) \/ TurnEnds(t)
    \/ \E m \in writing : Commit(m) \/ CommitFails(m)
    \/ \E v \in Values, ok \in BOOLEAN : SetVisual(v, ok) \/ SetLanguage(v, ok)
    \/ Restart

StateSpec == StateInit /\ [][StateNext]_stateVars

-----------------------------------------------------------------------------
\* The context of a turn has room for what is in it, nothing of the turn itself,
\* whose question is in the store by then, no answer before its question, and only
\* answers the model completed (_conversation_context, append).
ContextIsSound ==
    \A t \in Turns : LET c == context[t] IN
       /\ SizeOf(c) <= Room /\ Len(c) <= RecentLimit
       /\ \A i \in DOMAIN c : /\ c[i].turn # t
                              /\ c[i].role = "assistant" => c[i].turn \in completed
       /\ \A i, j \in DOMAIN c : i < j /\ c[i].turn = c[j].turn => c[i].role = "user"

\* A setting that was reported as set is the one a restart brings back; and the
\* language, which is stored before it is in force, is the stored one at all times
\* (_set_visual_settings, _set_recognition_language).
ReportedSettingIsKept == stored = confirmed /\ running["language"] = stored["language"]

\* Not held: the docstring of _conversation_context says "never
\* generated-but-undelivered content", the answer is stored before it is delivered.
ContextWasDelivered ==
    \A t \in Turns : \A i \in DOMAIN context[t] :
        context[t][i].role = "assistant" => context[t][i].turn \in delivered

-----------------------------------------------------------------------------
(* The inductive invariant of the messages and the settings                 *)

StateTypes ==
    /\ at \in [Turns -> {"next", "asking", "model", "inference", "storing", "delivery", "ended"}]
    /\ writing \subseteq Message /\ messages \in Seq(Message)
    /\ context \in [Turns -> Seq(Message)]
    /\ running \in [Kinds -> Values \cup {"default"}]
    /\ stored \in [Kinds -> Values \cup {"default"}]

Held(s) == {s[i] : i \in DOMAIN s}
Known(t, role) == \E m \in writing \cup Held(messages) : m.turn = t /\ m.role = role

\* What there can be of a turn where it stands, and of any turn one thread at a
\* time, so that its question is written before its answer.
WritesInTurn ==
    /\ \A t \in Turns :
          /\ at[t] = "next" => ~Known(t, "user")
          /\ at[t] \in {"next", "asking", "model", "inference"} => ~Known(t, "assistant")
          /\ at[t] \in {"model", "inference"} => \A m \in writing : m.turn # t
          /\ Known(t, "assistant") => t \in completed
    /\ \A m, n \in writing : m.turn = n.turn => m = n
    /\ \A m \in writing : m.role = "user" => ~Known(m.turn, "assistant")

\* A question and its answer are in the order in which they were written.
InOrder(s) == \A i, j \in DOMAIN s : i < j /\ s[i].turn = s[j].turn => s[i].role = "user"

StateInv ==
    /\ StateTypes /\ WritesInTurn /\ InOrder(messages)
    /\ ContextIsSound /\ ReportedSettingIsKept
=============================================================================
