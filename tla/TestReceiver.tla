---------------------------- MODULE TestReceiver ----------------------------
(***************************************************************************)
(* The test receiver: it answers webhooks as its configuration says, can   *)
(* fail the next N of them, and keeps a bounded log.  receive_webhook      *)
(* first awaits the request's body, reads the configuration only then, and *)
(* changes counter and log without another await, so that this is one step *)
(* (Handle); it ends with a sleep, during which requests and changes of    *)
(* the configuration come in.  How long it sleeps is left out.             *)
(***************************************************************************)
EXTENDS Naturals, Sequences

CONSTANTS
  Webhooks,    \* POSTs to /webhook
  FailCounts,  \* the values an update may give fail_next_n
  Null,        \* a field that an update leaves out
  MaxLog,      \* MAX_LOG_SIZE
  MaxChanges   \* bound: changes of the configuration and of the log

ASSUME FailAssumption == FailCounts \subseteq Nat /\ Null \notin Nat
ASSUME SizeAssumption == MaxLog \in Nat \ {0} /\ MaxChanges \in Nat

VARIABLES
  config,    \* the configuration, and fail_count
  log,       \* received_webhooks, the newest first
  pc,        \* how far each POST has come
  changes,   \* how often the configuration or the log was changed
  armed,     \* history: the last value given to fail_next_n
  outcomes,  \* history: whether each POST that counted since was failed
  received   \* history: the POSTs logged since the log was cleared

history == <<armed, outcomes, received>>
vars == <<config, log, pc, changes, history>>

Codes == {"ok", "error"}
Defaults ==
  [status_code |-> "ok", fail_next_n |-> 0, timeout_mode |-> FALSE, fail_count |-> 0]

TypeOK ==
  /\ config \in [status_code : Codes, fail_next_n : FailCounts \cup {0},
                 timeout_mode : BOOLEAN, fail_count : Nat]
  /\ config.fail_count <= config.fail_next_n
  /\ Len(log) <= MaxLog
  /\ \A i \in DOMAIN log :
       log[i] \in [id : 1..(MaxLog + 1), webhook : Webhooks, code : Codes \cup {"simulated"}]
  /\ pc \in [Webhooks -> {"new", "sent", "sleeping", "answered"}]
  /\ changes \in 0..MaxChanges
  /\ armed \in FailCounts \cup {0}
  /\ outcomes \in Seq(BOOLEAN)
  /\ received \in Seq(Webhooks)

Init ==
  /\ config = Defaults
  /\ log = <<>>
  /\ pc = [w \in Webhooks |-> "new"]
  /\ changes = 0
  /\ armed = 0
  /\ outcomes = <<>>
  /\ received = <<>>

Goto(w, from, to) == pc[w] = from /\ pc' = [pc EXCEPT ![w] = to]

Send(w) ==
  /\ Goto(w, "new", "sent")
  /\ UNCHANGED <<config, log, changes, history>>

\* Mutant: <= instead of <, one failure too many.
FailsOneMore == config.fail_next_n > 0 /\ config.fail_count <= config.fail_next_n

\* fail_next_n > 0, and fail_count + 1 <= fail_next_n.
Fails == config.fail_count < config.fail_next_n

\* What a POST leaves in the configuration, outside of timeout mode.  The count
\* is 0 whenever fail_next_n is.
Counted ==
  IF Fails THEN [config EXCEPT !.fail_count = @ + 1]
  ELSE [config EXCEPT !.fail_next_n = 0, !.fail_count = 0]

Response ==
  IF config.timeout_mode THEN "ok"
  ELSE IF Fails THEN "simulated" ELSE config.status_code

\* Mutant: a full log takes no more entries.
LoggedWhileRoom(e) == IF Len(log) < MaxLog THEN <<e>> \o log ELSE log

\* appendleft to a deque with maxlen: a full one loses its oldest entry.
Logged(e) == <<e>> \o SubSeq(log, 1, IF Len(log) < MaxLog THEN Len(log) ELSE MaxLog - 1)

\* receive_webhook, from the body to the sleep or to the answer.
Handle(w) ==
  /\ Goto(w, "sent", "sleeping")
  /\ log' = Logged([id |-> Len(log) + 1, webhook |-> w, code |-> Response])
  /\ config' = IF config.timeout_mode THEN config ELSE Counted
  /\ outcomes' = IF config.timeout_mode THEN outcomes ELSE Append(outcomes, Fails)
  /\ received' = Append(received, w)
  /\ UNCHANGED <<changes, armed>>

Answer(w) ==
  /\ Goto(w, "sleeping", "answered")
  /\ UNCHANGED <<config, log, changes, history>>

Change == changes < MaxChanges /\ changes' = changes + 1

\* Mutant: fail_count goes on from where it was.
CountKept(n) == config.fail_count

\* An update that sets fail_next_n starts to count anew.
CountAfter(n) == IF n = Null THEN config.fail_count ELSE 0

Given(new, old) == IF new = Null THEN old ELSE new

Update(code, n, timeout) ==
  /\ config' = [status_code |-> Given(code, config.status_code),
                fail_next_n |-> Given(n, config.fail_next_n),
                timeout_mode |-> Given(timeout, config.timeout_mode),
                fail_count |-> CountAfter(n)]
  /\ armed' = Given(n, armed)
  /\ outcomes' = IF n = Null THEN outcomes ELSE <<>>
  /\ Change
  /\ UNCHANGED <<log, pc, received>>

Reset ==
  /\ config' = Defaults
  /\ armed' = 0 /\ outcomes' = <<>>
  /\ Change
  /\ UNCHANGED <<log, pc, received>>

Clear ==
  /\ log' = <<>> /\ received' = <<>>
  /\ Change
  /\ UNCHANGED <<config, pc, armed, outcomes>>

AllAnswered == (\A w \in Webhooks : pc[w] = "answered") /\ UNCHANGED vars

Next ==
  \/ \E w \in Webhooks : Send(w) \/ Handle(w) \/ Answer(w)
  \/ \E code \in Codes \cup {Null}, n \in FailCounts \cup {Null},
        timeout \in BOOLEAN \cup {Null} : Update(code, n, timeout)
  \/ Reset \/ Clear
  \/ AllAnswered

Spec == Init /\ [][Next]_vars

-----------------------------------------------------------------------------

\* "Fail N times then recover": of the POSTs that come in after fail_next_n was
\* set, in whatever order and however often it was set before, exactly the first
\* N fail, and those that the timeout mode held do not count.
FailsThenRecovers == \A i \in DOMAIN outcomes : outcomes[i] <=> i <= armed

\* The log holds the newest POSTs since it was cleared, newest first.  Their ids
\* count them from 1 until the log is full; from then on all get one id.
LogKeepsNewest ==
  LET total == Len(received)
  IN  /\ Len(log) = IF total < MaxLog THEN total ELSE MaxLog
      /\ \A i \in DOMAIN log :
           /\ log[i].webhook = received[total + 1 - i]
           /\ log[i].id = IF total + 1 - i <= MaxLog THEN total + 1 - i ELSE MaxLog + 1
=============================================================================
