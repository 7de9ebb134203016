------------------------------ MODULE SSHScreen ------------------------------
(* The code screen over SSH (internal/sshscreen server.go, agent.go,       *)
(* hostkey.go; sshPart in internal/bootrun/parts.go): the sessions, who    *)
(* confirms, where the password is asked, and cryptsetup's own questions,  *)
(* asked in a session beside the console.                                  *)
(*                                                                         *)
(* The provider of the disks' keys and the agent each ask one thing at a   *)
(* time; both may ask in the same session.                                 *)
EXTENDS Integers, Sequences, SequencesExt, FiniteSets, Outcomes

CONSTANTS
  Logins,       \* the sessions that may come
  Questions,    \* what cryptsetup asks for itself
  MaxPassphrase \* diskkey.MaxPassphrase: the keys a session keeps, and a passphrase has

ASSUME LoginsAssumption == Absent \notin Logins /\ MaxPassphrase \in Nat

VARIABLES
  line,       \* of a login: out, in, closed
  sessions,   \* r.sessions, in the order they came
  keys,       \* of a login: what is typed once the boot is released
  srv,        \* r.released, r.stopped, r.target and the signal of a confirmation
  run,        \* run's part: where it is, and who confirmed first
  ask,        \* of an asker: what it asks, and where
  questions,  \* of cryptsetup's questions: none, pending, sent, unsent, gone
  seen,       \* the agent's questions that are asked, or answered
  typed       \* how many keys were typed

sshVars == <<line, sessions, keys, srv, run, ask, questions, seen, typed>>

Nowhere == Absent
Enter == "enter"
Leave == "ctrl-c"
Backspace == "backspace"
Askers == {"provider", "agent"}
NoPrompt == [at |-> "idle"]

Open(s) == line[s] = "in"
----------------------------------------------------------------------------
\* Start: the host key is made in the TPM, certified where the CA's policy lets
\* it be, and nothing is served without one, or without a key that may log in.
PrepareHostKey(tpm, ca) ==
  CASE ~ tpm -> "none"
    [] tpm /\ ca = "certifies" -> "certified"
    [] OTHER -> "temporary"
Starts(authorized, hostkey, listens) == authorized /\ hostkey # "none" /\ listens

SSHInit ==
  /\ line = [s \in Logins |-> "out"] /\ sessions = <<>> /\ keys = [s \in Logins |-> <<>>]
  /\ \E a, t, l \in BOOLEAN, c \in {"certifies", "refuses", "missing"} :
       run = [at |-> IF Starts(a, PrepareHostKey(t, c), l) THEN "hold" ELSE "off",
              confirmed |-> Nowhere, console |-> FALSE, list |-> {}]
  /\ srv = [released |-> FALSE, stopped |-> FALSE, target |-> Nowhere, signal |-> FALSE]
  /\ ask = [a \in Askers |-> NoPrompt]
  /\ questions = [q \in Questions |-> "none"] /\ seen = {} /\ typed = 0
----------------------------------------------------------------------------
(* Sessions.                                                               *)

\* A login that comes after the stop is closed at once.
addSession(s) ==
  /\ line[s] = "out" /\ run.at # "off"
  /\ IF srv.stopped THEN line' = [line EXCEPT ![s] = "closed"] /\ UNCHANGED sessions
     ELSE line' = [line EXCEPT ![s] = "in"] /\ sessions' = Append(sessions, s)
  /\ UNCHANGED <<keys, srv, run, ask, questions, seen, typed>>

\* What an asker is to have of a key typed in its session: an account for the
\* properties, the code keeps none.
Accounts(s, k, kept) ==
  [a \in Askers |->
     IF ask[a].at = "asking" /\ ask[a].s = s
     THEN [ask[a] EXCEPT !.typed = Append(@, k), !.clear = @ /\ kept]
     ELSE ask[a]]

\* read, one byte: Enter confirms and Ctrl-C leaves while the boot is held;
\* afterwards a key is for a prompt, and one that finds the buffer full is lost.
Confirms(s) ==
  /\ ~ srv.released
  /\ srv' = [srv EXCEPT !.released = TRUE, !.target = s, !.signal = TRUE]
  /\ run' = [run EXCEPT !.confirmed = s]
  /\ UNCHANGED <<line, sessions, keys, ask, questions, seen>>
Leaves(s) ==
  /\ ~ srv.released /\ line' = [line EXCEPT ![s] = "closed"]
  /\ UNCHANGED <<sessions, keys, srv, run, ask, questions, seen>>
Buffers(s, k) ==
  LET kept == Len(keys[s]) < MaxPassphrase IN
  /\ srv.released
  /\ keys' = IF kept THEN [keys EXCEPT ![s] = Append(@, k)] ELSE keys
  /\ ask' = Accounts(s, k, kept)
  /\ UNCHANGED <<line, sessions, srv, run, questions, seen>>
read(s, max) ==
  /\ Open(s) /\ typed < max /\ typed' = typed + 1
  /\ \/ Confirms(s)
     \/ Leaves(s)
     \/ \E k \in {"x", Enter, Leave, Backspace} : Buffers(s, k)

\* The client goes, or a write to it fails; its reader then takes it off the list.
Drops(s) ==
  /\ Open(s) /\ line' = [line EXCEPT ![s] = "closed"]
  /\ UNCHANGED <<sessions, keys, srv, run, ask, questions, seen, typed>>
ReaderEnds(s) ==
  /\ line[s] = "closed"
  /\ \E i \in 1 .. Len(sessions) : sessions[i] = s /\ sessions' = RemoveAt(sessions, i)
  /\ UNCHANGED <<line, keys, srv, run, ask, questions, seen, typed>>
----------------------------------------------------------------------------
(* Run: the end of the hold, and of run.                                   *)

\* Release: where the prompt goes.
releaseTarget(r, console, list) ==
  CASE console -> Nowhere
    [] ~ console /\ r.target = Nowhere /\ list # <<>> -> Last(list)
    [] OTHER -> r.target

\* A confirmation in a session, or at the console, or another end of the hold.
ReleaseServer(console) ==
  /\ run.at = "hold"
  /\ LET t == releaseTarget(srv, console, sessions) IN
     /\ srv' = [srv EXCEPT !.released = TRUE, !.target = t]
     /\ run' = [run EXCEPT !.at = IF t = Nowhere THEN "stop" ELSE "served", !.console = console]
  /\ UNCHANGED <<line, sessions, keys, ask, questions, seen, typed>>

\* Stop: the list under the lock, then every session is told and closed; the
\* child ends, and Done is closed.
StopTakes ==
  /\ run.at = "stop"
  /\ srv' = [srv EXCEPT !.stopped = TRUE] /\ sessions' = <<>>
  /\ run' = [run EXCEPT !.at = "closing", !.list = ToSet(sessions)]
  /\ UNCHANGED <<line, keys, ask, questions, seen, typed>>
StopCloses ==
  /\ run.at = "closing"
  /\ line' = [s \in Logins |-> IF s \in run.list THEN "closed" ELSE line[s]]
  /\ run' = [run EXCEPT !.at = "done", !.list = {}]
  /\ UNCHANGED <<sessions, keys, srv, ask, questions, seen, typed>>
EndServer ==
  /\ run.at = "served" /\ run' = [run EXCEPT !.at = "stop"]
  /\ UNCHANGED <<line, sessions, keys, srv, ask, questions, seen, typed>>
----------------------------------------------------------------------------
(* Prompts.                                                                *)

\* Where a password is asked: the session that confirmed, after it left the
\* newest; the console when none is in.
PromptTarget ==
  CASE srv.stopped -> Nowhere
    [] ~ srv.stopped /\ srv.target # Nowhere /\ line[srv.target] # "closed" -> srv.target
    [] ~ srv.stopped /\ (srv.target = Nowhere \/ line[srv.target] = "closed") ->
         IF sessions = <<>> THEN Nowhere ELSE Last(sessions)
TargetSet == srv' = IF srv.stopped THEN srv ELSE [srv EXCEPT !.target = PromptTarget]

\* askIn: what was typed before the question is drained; then the prompt.
Asking(s, q) == [at |-> "drain", s |-> s, q |-> q, got |-> <<>>, typed |-> <<>>, clear |-> TRUE]
AskIn(a, q) ==
  ask' = [ask EXCEPT ![a] = IF PromptTarget = Nowhere THEN NoPrompt ELSE Asking(PromptTarget, q)]

\* Another prompt in the session: their keys are no longer told apart.
Shared(s, a) == \E b \in Askers \ {a} : ask[b].at \in {"drain", "asking"} /\ ask[b].s = s
Marks(s) == [a \in Askers |-> IF ask[a].at \in {"drain", "asking"} /\ ask[a].s = s THEN [ask[a] EXCEPT !.clear = FALSE] ELSE ask[a]]

\* What was typed before the question is no part of the answer.
drained(old) == <<>>
Drain(a) ==
  /\ ask[a].at = "drain"
  /\ LET s == ask[a].s IN
     /\ keys' = [keys EXCEPT ![s] = drained(@)]
     /\ ask' = [(IF Shared(s, a) THEN Marks(s) ELSE ask) EXCEPT ![a].at = "asking"]
  /\ UNCHANGED <<line, sessions, srv, run, questions, seen, typed>>

Ended(c, at) == [at |-> at, q |-> c.q]

\* A key, to a prompt: Enter ends it after something, Ctrl-C cancels it, Backspace
\* erases; one more than a passphrase has is dropped, and the bell rings.
Took(c, k) ==
  CASE k = Enter -> IF c.got = <<>> THEN c ELSE [c EXCEPT !.at = "answered"]
    [] k = Leave -> Ended(c, "cancelled")
    [] k = Backspace -> [c EXCEPT !.got = Front(@)]
    [] OTHER -> IF Len(c.got) < MaxPassphrase THEN [c EXCEPT !.got = Append(@, k)] ELSE c

\* ReadRawPassphrase: a key, or the session is gone, or the question is; which of
\* those at hand is taken first is not said.
TakesKey(a) ==
  LET s == ask[a].s k == Head(keys[s]) IN
  /\ ask[a].at = "asking" /\ keys[s] # <<>>
  /\ keys' = [keys EXCEPT ![s] = Tail(@)]
  /\ ask' = [ask EXCEPT ![a] = Took(@, k)]
  /\ UNCHANGED <<line, sessions, srv, run, questions, seen, typed>>
SessionGone(a) ==
  /\ ask[a].at = "asking" /\ line[ask[a].s] = "closed"
  /\ ask' = [ask EXCEPT ![a] = Ended(@, "cancelled")]
  /\ UNCHANGED <<line, sessions, keys, srv, run, questions, seen, typed>>

\* tpm2-kira's own prompt, once the hold is over: without a session it is the
\* console's; one that is cancelled gives no key, and cryptsetup asks.
Ask ==
  /\ run.at \in {"served", "stop", "closing", "done"} /\ ask["provider"].at = "idle"
  /\ PromptTarget # Nowhere
  /\ AskIn("provider", Nowhere) /\ TargetSet
  /\ UNCHANGED <<line, sessions, keys, run, questions, seen, typed>>
Asked ==
  /\ ask["provider"].at \in {"answered", "cancelled"} /\ ask' = [ask EXCEPT !["provider"] = [at |-> "over"]]
  /\ UNCHANGED <<line, sessions, keys, srv, run, questions, seen, typed>>

\* cryptsetup's questions; systemd takes one away when it has an answer, of the
\* console or of a session, or when its time is over.
QuestionComes(q) ==
  /\ questions[q] = "none" /\ questions' = [questions EXCEPT ![q] = "pending"]
  /\ UNCHANGED <<line, sessions, keys, srv, run, ask, seen, typed>>
QuestionGoes(q) ==
  /\ questions[q] \in {"pending", "sent", "unsent"} /\ questions' = [questions EXCEPT ![q] = "gone"]
  /\ UNCHANGED <<line, sessions, keys, srv, run, ask, seen, typed>>

\* The agent: every question that is pending and not seen, where a session has
\* the prompt; it may have gone since the list was read.
Tick(q) ==
  /\ srv.released /\ run.at \notin {"off", "done"}
  /\ ask["agent"].at = "idle" /\ questions[q] # "none" /\ q \notin seen
  /\ PromptTarget # Nowhere
  /\ seen' = seen \union {q} /\ AskIn("agent", q) /\ TargetSet
  /\ UNCHANGED <<line, sessions, keys, run, questions, typed>>
\* The watch: the question is answered elsewhere, or the server has stopped.
Withdrawn ==
  /\ ask["agent"].at = "asking" /\ (questions[ask["agent"].q] = "gone" \/ run.at = "done")
  /\ ask' = [ask EXCEPT !["agent"] = Ended(@, "withdrawn")]
  /\ UNCHANGED <<line, sessions, keys, srv, run, questions, seen, typed>>

\* What became of the answer: one that could not be sent is only logged, and one
\* that was is there until systemd takes the question away.
answers(q) ==
  questions' \in IF questions[q] = "pending" THEN {[questions EXCEPT ![q] = o] : o \in {"sent", "unsent"}}
                ELSE {questions}

\* Mutant: the question stays seen when the session left.
seenAfter_Kept(at, q) == seen
seenAfter(at, q) == IF at = "cancelled" THEN seen \ {q} ELSE seen
askQuestion ==
  /\ ask["agent"].at \in {"answered", "cancelled", "withdrawn"}
  /\ LET q == ask["agent"].q IN
     /\ IF ask["agent"].at = "answered" THEN answers(q) ELSE UNCHANGED questions
     /\ seen' = seenAfter(ask["agent"].at, q)
  /\ ask' = [ask EXCEPT !["agent"] = NoPrompt]
  /\ UNCHANGED <<line, sessions, keys, srv, run, typed>>

\* With the askers that ask at all, the logins that come and the keys typed.
SSHNext(A, L, max) ==
  \/ \E s \in L : addSession(s) \/ read(s, max) \/ Drops(s) \/ ReaderEnds(s)
  \/ ReleaseServer(TRUE) \/ ReleaseServer(FALSE) \/ StopTakes \/ StopCloses \/ EndServer
  \/ \E a \in A : Drain(a) \/ TakesKey(a) \/ SessionGone(a)
  \/ "provider" \in A /\ (Ask \/ Asked)
  \/ "agent" \in A /\ (Withdrawn \/ askQuestion \/ \E q \in Questions : QuestionComes(q) \/ QuestionGoes(q) \/ Tick(q))

\* Whoever asks, and whatever is typed.
SSHSpec == SSHInit /\ [][\E max \in Nat : SSHNext(Askers, Logins, max)]_sshVars
----------------------------------------------------------------------------
(* Properties.                                                             *)

\* A text, after a key that does not end the prompt.
Texts == BoundedSeq({"x"}, MaxPassphrase)
Edited(text, k) ==
  CASE k = Enter -> text
    [] k = Backspace -> Front(text)
    [] OTHER -> IF Len(text) < MaxPassphrase THEN Append(text, k) ELSE text

\* h is how the text grew over the first m keys of t: Enter came only while there
\* was none, and nothing cancelled it.
Grew(h, t, m, text) ==
  /\ h[0] = <<>> /\ h[m] = text
  /\ \A i \in 1 .. m : h[i] = Edited(h[i - 1], t[i]) /\ t[i] # Leave /\ (t[i] = Enter => h[i - 1] = <<>>)

\* What the keys typed since the question answer: the text at the first Enter
\* after something.
IsAnswer(text, t) ==
  /\ text # <<>>
  /\ \E m \in 0 .. Len(t) - 1 : t[m + 1] = Enter /\ \E h \in [0 .. m -> Texts] : Grew(h, t, m, text)

\* An answer is what was typed to its question, as it was corrected and up to the
\* length of a passphrase, no more and no less, when no other prompt was in the
\* session and its buffer was never full (askIn, ReadRawPassphrase).
AnswersAsTyped ==
  \A a \in Askers : ask[a].at = "answered" /\ ask[a].clear => IsAnswer(ask[a].got, ask[a].typed)

\* The session that confirmed has the prompt while it is in, unless the console
\* took the boot (Release, PromptTarget).
ConfirmedHasThePrompt ==
  \A a \in Askers : ask[a].at = "drain" /\ run.confirmed # Nowhere /\ ~ run.console /\ ask[a].s # run.confirmed =>
    line[run.confirmed] = "closed"

\* A question that waits and had no answer of a session, because the session left
\* when it was asked, is asked again in the next (answerPasswordQuestions). One
\* whose answer could not be sent is not.
QuestionsStay ==
  \A q \in seen : questions[q] = "pending" /\ ask["agent"].at = "idle" => run.at = "done"

\* Stopped, no session is left open, whenever it came (addSession, Stop).
StopLeavesNone == run.at = "done" => sessions = <<>> /\ \A s \in Logins : ~ Open(s)

\* Over SSH, nothing is confirmed, asked or left open beside what the code says.
PromptsHold == AnswersAsTyped /\ ConfirmedHasThePrompt /\ QuestionsStay /\ StopLeavesNone
=============================================================================
