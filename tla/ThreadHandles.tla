---------------------------- MODULE ThreadHandles ----------------------------
(* Thread handles of one CodexClient: what a handle believes of the settings *)
(* of its thread, while calls that change them are in flight.                *)
(*                                                                           *)
(* The server serves requests one at a time and its answers arrive in order, *)
(* but a call may give up on its answer.                                     *)
EXTENDS ThreadConfig, Integers, SequencesExt

CONSTANTS
    Calls,     \* application tasks, each making one call at a time
    Handles,   \* ThreadHandle objects
    Threads,   \* thread ids the server may hand out
    Overrides, \* configurations that the application passes
    NoThread, NoHandle

ASSUME NamesAssumption == NoThread \notin Threads /\ NoHandle \notin Handles
ASSUME OverridesAssumption == Overrides \subseteq Config

VARIABLES
    settings,  \* what the server holds of each thread
    thread, defaults, \* _thread_id and _defaults of each handle
    pc, op, handle, target, \* each call: where it is, what it does, the handle
                            \* it makes or uses, the thread
    passed, sent, \* the configuration that it was passed, and that it sent
    answers,   \* calls whose answer has arrived, in order
    exists,    \* threads of the server
    latest,    \* what the last call naming each field passed, per thread (history)
    writers,   \* handles whose calls changed each thread (history)
    doubtful   \* threads of which an answer was missed (history)

callVars == <<pc, op, handle, target, passed, sent>>
vars == <<settings, thread, defaults, callVars, answers, exists, latest,
          writers, doubtful>>

-----------------------------------------------------------------------------
(* Calls.                                                                    *)

Unmade(h) == thread[h] = NoThread /\ \A c \in Calls : handle[c] # h

\* A request about thread t (NoThread: a new one) is on its way.
Ask(c, what, h, t, overrides, config) ==
    /\ pc[c] = "idle"
    /\ pc' = [pc EXCEPT ![c] = "asked"]
    /\ op' = [op EXCEPT ![c] = what]
    /\ handle' = [handle EXCEPT ![c] = h]
    /\ target' = [target EXCEPT ![c] = t]
    /\ passed' = [passed EXCEPT ![c] = overrides]
    /\ sent' = [sent EXCEPT ![c] = config]
    /\ UNCHANGED <<settings, thread, defaults, answers, exists, latest, writers,
                   doubtful>>

\* CodexClient.start_thread
StartThread(c, h, config) ==
    Unmade(h) /\ Ask(c, "start", h, NoThread, config, config)

\* CodexClient.resume_thread
ResumeThread(c, h, t, overrides) ==
    Unmade(h) /\ t \in exists /\ Ask(c, "resume", h, t, overrides, overrides)

\* ThreadHandle.fork, on handle g
Fork(c, g, h, overrides) ==
    /\ thread[g] # NoThread /\ Unmade(h)
    /\ Ask(c, "fork", h, thread[g], overrides, Merge(defaults[g], overrides))

\* Mutant: the whole snapshot is sent with the update.
UpdateAll(c, h, overrides) ==
    /\ thread[h] # NoThread
    /\ Ask(c, "update", h, thread[h], overrides, Merge(defaults[h], overrides))

\* ThreadHandle.update_defaults
UpdateDefaults(c, h, overrides) ==
    /\ thread[h] # NoThread
    /\ Ask(c, "update", h, thread[h], overrides, overrides)

\* The server applies the request and answers.  A fork starts from the
\* settings of its source.
Applies(c, t, base, asked) ==
    /\ settings' = [settings EXCEPT ![t] = ServerSets(base, Params(sent[c]))]
    /\ target' = [target EXCEPT ![c] = t]
    /\ writers' = [writers EXCEPT ![t] = @ \cup {handle[c]}]
    /\ exists' = exists \cup {t}
    /\ latest' = [latest EXCEPT ![t] = Merge(asked, passed[c])]

Serve(c) ==
    /\ pc[c] = "asked"
    /\ \/ /\ op[c] \in {"resume", "update"}
          /\ Applies(c, target[c], settings[target[c]], latest[target[c]])
       \/ \E t \in Threads \ exists :
             \/ op[c] = "start" /\ Applies(c, t, Empty, Empty)
             \/ op[c] = "fork" /\ Applies(c, t, settings[target[c]], Empty)
    /\ pc' = [pc EXCEPT ![c] = "answered"]
    /\ answers' = Append(answers, c)
    /\ UNCHANGED <<thread, defaults, op, handle, passed, sent, doubtful>>

Leave(c) ==
    /\ pc' = [pc EXCEPT ![c] = "idle"]
    /\ op' = [op EXCEPT ![c] = "none"]
    /\ handle' = [handle EXCEPT ![c] = NoHandle]
    /\ target' = [target EXCEPT ![c] = NoThread]
    /\ passed' = [passed EXCEPT ![c] = Empty]
    /\ sent' = [sent EXCEPT ![c] = Empty]

\* The answer has come, in the order of the answers: a new handle has what was
\* sent as its defaults; an update is merged into the defaults as they are now.
Returns(c) ==
    /\ answers # <<>> /\ Head(answers) = c
    /\ answers' = RemoveFirst(answers, c)
    /\ thread' = [thread EXCEPT ![handle[c]] = target[c]]
    /\ defaults' = [defaults EXCEPT ![handle[c]] =
                       IF op[c] = "update" THEN Merge(@, sent[c]) ELSE sent[c]]
    /\ Leave(c)
    /\ UNCHANGED <<settings, exists, latest, writers, doubtful>>

\* Mutant: the answer of a call that gave up is still taken in.
RaisesUnheard(c) ==
    /\ pc[c] # "idle"
    /\ doubtful' = doubtful \cup {target[c]}
    /\ Leave(c)
    /\ UNCHANGED <<settings, thread, defaults, answers, exists, latest, writers>>

\* The request fails, times out or is cancelled, applied or not.  (If it is
\* applied later still, that is to a thread already in doubt.)
Raises(c) ==
    /\ pc[c] # "idle"
    /\ answers' = RemoveFirst(answers, c)
    /\ doubtful' = doubtful \cup {target[c]}
    /\ Leave(c)
    /\ UNCHANGED <<settings, thread, defaults, exists, latest, writers>>

-----------------------------------------------------------------------------

Init ==
    /\ settings = [t \in Threads |-> Empty]
    /\ thread = [h \in Handles |-> NoThread]
    /\ defaults = [h \in Handles |-> Empty]
    /\ pc = [c \in Calls |-> "idle"]
    /\ op = [c \in Calls |-> "none"]
    /\ handle = [c \in Calls |-> NoHandle]
    /\ target = [c \in Calls |-> NoThread]
    /\ passed = [c \in Calls |-> Empty]
    /\ sent = [c \in Calls |-> Empty]
    /\ latest = [t \in Threads |-> Empty]
    /\ answers = <<>> /\ exists = {} /\ doubtful = {}
    /\ writers = [t \in Threads |-> {}]

AppStep(c) ==
    \E h \in Handles, overrides \in Overrides :
        \/ StartThread(c, h, overrides)
        \/ \E t \in Threads : ResumeThread(c, h, t, overrides)
        \/ \E g \in Handles : Fork(c, g, h, overrides)
        \/ UpdateDefaults(c, h, overrides)

Next == \E c \in Calls : AppStep(c) \/ Serve(c) \/ Returns(c) \/ Raises(c)

Spec == Init /\ [][Next]_vars

-----------------------------------------------------------------------------
(* Properties.                                                               *)

Ops == {"none", "start", "resume", "fork", "update"}

\* The values of the variables; the answered calls are those in `answers`.
TypeOK ==
    /\ settings \in [Threads -> Config]
    /\ thread \in [Handles -> Threads \cup {NoThread}]
    /\ defaults \in [Handles -> Config]
    /\ pc \in [Calls -> {"idle", "asked", "answered"}]
    /\ op \in [Calls -> Ops]
    /\ handle \in [Calls -> Handles \cup {NoHandle}]
    /\ target \in [Calls -> Threads \cup {NoThread}]
    /\ passed \in [Calls -> Config] /\ sent \in [Calls -> Config]
    /\ latest \in [Threads -> Config]
    /\ answers \in Seq(Calls)
    /\ exists \subseteq Threads /\ doubtful \subseteq Threads \cup {NoThread}
    /\ writers \in [Threads -> SUBSET Handles]
    /\ \A c \in Calls : (\E k \in DOMAIN answers : answers[k] = c) <=> pc[c] = "answered"

\* A field that a handle believes to be set has that value on the server, for
\* the handle that alone changes its thread and missed no answer, whenever no
\* answer is still to be taken in; also with several updates in flight at once.
Settled(h) == \A c \in Calls : handle[c] = h => pc[c] # "answered"

SnapshotTrue ==
    \A h \in Handles :
        thread[h] # NoThread /\ writers[thread[h]] = {h}
            /\ thread[h] \notin doubtful /\ Settled(h)
        => \A f \in Named(defaults[h]) : settings[thread[h]][f] = defaults[h][f]

\* Updates of different fields made at once both last, also through different
\* handles: each field of a thread has the value that the last served call
\* naming that field passed for it.
NoLostUpdate ==
    \A t \in exists : \A f \in Named(latest[t]) : settings[t][f] = latest[t][f]
=============================================================================
