------------------------- MODULE TestReceiverProofs -------------------------
(***************************************************************************)
(* Proofs that the test receiver fails exactly the next N webhooks and     *)
(* that its log keeps the newest, for any number of webhooks and updates   *)
(* and any size of the log.                                                *)
(***************************************************************************)
EXTENDS TestReceiver, SequenceTheorems, TLAPS

Entries == [id : 1..(MaxLog + 1), webhook : Webhooks, code : Codes \cup {"simulated"}]

(* While failures are wanted, fail_count counts the webhooks since then;   *)
(* afterwards at least as many have come in as were to fail.               *)
Counting ==
  IF config.fail_next_n > 0
  THEN config.fail_next_n = armed /\ config.fail_count = Len(outcomes)
  ELSE config.fail_count = 0 /\ Len(outcomes) >= armed

IInv == TypeOK /\ log \in Seq(Entries) /\ Counting /\ FailsThenRecovers /\ LogKeepsNewest

\* A new entry in front of the first k of a sequence.
LEMMA PushFront ==
  ASSUME NEW S, NEW s \in Seq(S), NEW e \in S, NEW k \in 0..Len(s)
  PROVE  LET t == <<e>> \o SubSeq(s, 1, k)
         IN  /\ t \in Seq(S) /\ Len(t) = k + 1 /\ t[1] = e
             /\ \A i \in 2..(k + 1) : t[i] = s[i - 1]
  <1> DEFINE u == SubSeq(s, 1, k)
             t == <<e>> \o u
  <1>1. Len(s) \in Nat /\ k \in Nat /\ \A i \in 1..k : s[i] \in S
    BY ElementOfSeq, LenProperties
  <1>2. u \in Seq(S) /\ Len(u) = k /\ \A i \in 1..k : u[i] = s[i]
    BY <1>1, SubSeqProperties
  <1>3. t \in Seq(S) /\ Len(t) = 1 + k /\ \A i \in 1..(1 + k) : t[i] = IF i <= 1 THEN <<e>>[i] ELSE u[i - 1]
    BY <1>1, <1>2, ConcatProperties
  <1> QED
    BY <1>1, <1>2, <1>3

\* The first state.
LEMMA InitInvariant == Init => IInv
  BY FailAssumption, SizeAssumption
  DEF Init, Defaults, IInv, TypeOK, Codes, Counting, FailsThenRecovers, LogKeepsNewest

\* An entry is logged.
LEMMA LogStep ==
  ASSUME IInv, NEW w \in Webhooks, Handle(w)
  PROVE  /\ log' \in Seq(Entries) /\ Len(log') <= MaxLog /\ \A i \in DOMAIN log' : log'[i] \in Entries
         /\ received' \in Seq(Webhooks) /\ LogKeepsNewest'
  <1> USE DEF IInv
  <1> DEFINE total == Len(received)
             k == IF Len(log) < MaxLog THEN Len(log) ELSE MaxLog - 1
  <1>1. total \in Nat /\ Len(log) \in Nat /\ MaxLog \in Nat \ {0} /\ k \in 0..Len(log)
    BY SizeAssumption, LenProperties DEF TypeOK, LogKeepsNewest
  <1>2. PICK e \in Entries : e = [id |-> Len(log) + 1, webhook |-> w, code |-> Response]
    <2>1. Len(log) + 1 \in 1..(MaxLog + 1)
      BY <1>1 DEF TypeOK
    <2>2. config.status_code \in Codes
      BY DEF TypeOK
    <2>3. Response \in Codes \cup {"simulated"}
      BY <2>2 DEF Response, Codes
    <2> QED
      BY <2>1, <2>3 DEF Entries
  <1>3. log' = <<e>> \o SubSeq(log, 1, k) /\ received' = Append(received, w)
    BY <1>2 DEF Handle, Logged
  <1>4. /\ log' \in Seq(Entries) /\ Len(log') = k + 1 /\ log'[1] = e
        /\ \A i \in 2..(k + 1) : log'[i] = log[i - 1]
    BY <1>1, <1>3, PushFront
  <1>5. /\ received' \in Seq(Webhooks) /\ Len(received') = total + 1
        /\ received'[total + 1] = w
        /\ \A i \in 1..total : received'[i] = received[i]
    BY <1>1, <1>3, AppendProperties DEF TypeOK
  <1>6. Len(log) = IF total < MaxLog THEN total ELSE MaxLog
    BY DEF LogKeepsNewest
  <1>7. Len(log') = IF total + 1 < MaxLog THEN total + 1 ELSE MaxLog
    BY <1>1, <1>4, <1>6
  <1>8. ASSUME NEW i \in 1..(k + 1)
        PROVE  /\ log'[i].webhook = received'[total + 2 - i]
               /\ log'[i].id = IF total + 2 - i <= MaxLog THEN total + 2 - i ELSE MaxLog + 1
    <2>1. CASE i = 1
      BY <1>1, <1>2, <1>4, <1>5, <1>6, <2>1
    <2>2. CASE i # 1
      <3>1. i \in 2..(k + 1) /\ i - 1 \in 1..Len(log) /\ total + 2 - i \in 1..total
        BY <1>1, <1>6, <2>2
      <3>2. /\ log[i - 1].webhook = received[total + 1 - (i - 1)]
            /\ log[i - 1].id = IF total + 1 - (i - 1) <= MaxLog THEN total + 1 - (i - 1) ELSE MaxLog + 1
        BY <3>1, LenProperties DEF LogKeepsNewest
      <3>3. total + 1 - (i - 1) = total + 2 - i
        BY <1>1
      <3> QED
        BY <1>4, <1>5, <3>1, <3>2, <3>3
    <2> QED
      BY <2>1, <2>2
  <1>9. DOMAIN log' = 1..(k + 1) /\ \A i \in DOMAIN log' : log'[i] \in Entries
    BY <1>4, LenProperties, ElementOfSeq
  <1>10. LogKeepsNewest'
    <2>1. \A i \in 1..(k + 1) : total + 1 + 1 - i = total + 2 - i
      BY <1>1
    <2>2. ASSUME NEW i \in DOMAIN log'
          PROVE  /\ log'[i].webhook = received'[Len(received') + 1 - i]
                 /\ log'[i].id = IF Len(received') + 1 - i <= MaxLog
                                 THEN Len(received') + 1 - i ELSE MaxLog + 1
      BY <1>5, <1>8, <1>9, <2>1
    <2> QED
      BY <1>5, <1>7, <2>2 DEF LogKeepsNewest
  <1> QED
    BY <1>1, <1>4, <1>5, <1>7, <1>9, <1>10

\* A webhook outside of timeout mode fails while failures are left.
LEMMA CountStep ==
  ASSUME IInv, NEW w \in Webhooks, Handle(w), ~config.timeout_mode
  PROVE  /\ config' \in [status_code : Codes, fail_next_n : FailCounts \cup {0},
                         timeout_mode : BOOLEAN, fail_count : Nat]
         /\ config'.fail_count <= config'.fail_next_n
         /\ outcomes' \in Seq(BOOLEAN) /\ Counting' /\ FailsThenRecovers'
  <1> USE DEF IInv
  <1> DEFINE n == Len(outcomes)
  <1>1. /\ n \in Nat /\ armed \in Nat
        /\ config.fail_next_n \in Nat /\ config.fail_count \in Nat
        /\ config.fail_count <= config.fail_next_n
    <2>1. n \in Nat
      BY LenProperties DEF TypeOK
    <2>2. /\ config.fail_next_n \in FailCounts \cup {0} /\ config.fail_count \in Nat
          /\ config.fail_count <= config.fail_next_n /\ armed \in FailCounts \cup {0}
      BY DEF TypeOK
    <2> QED
      <3>1. FailCounts \cup {0} \subseteq Nat
        BY FailAssumption
      <3> QED
        BY <2>1, <2>2, <3>1
  <1>2. PICK b \in BOOLEAN : b <=> Fails
    OBVIOUS
  <1>3. outcomes' = Append(outcomes, b) /\ config' = Counted /\ UNCHANGED armed
    <2>1. b = Fails
      BY <1>2 DEF Fails
    <2> QED
      BY <2>1 DEF Handle
  <1>4. /\ outcomes' \in Seq(BOOLEAN) /\ Len(outcomes') = n + 1
        /\ outcomes'[n + 1] = b /\ \A i \in 1..n : outcomes'[i] = outcomes[i]
    BY <1>3, AppendProperties DEF TypeOK
  <1>5. b <=> n + 1 <= armed
    BY <1>1, <1>2 DEF Fails, Counting
  <1>6. /\ config' \in [status_code : Codes, fail_next_n : FailCounts \cup {0},
                        timeout_mode : BOOLEAN, fail_count : Nat]
        /\ config'.fail_next_n = IF Fails THEN config.fail_next_n ELSE 0
        /\ config'.fail_count = IF Fails THEN config.fail_count + 1 ELSE 0
    <2>1. CASE Fails
      BY <1>1, <1>3, <2>1 DEF Counted, TypeOK
    <2>2. CASE ~Fails
      BY <1>1, <1>3, <2>2 DEF Counted, TypeOK
    <2> QED
      BY <2>1, <2>2
  <1>7. config'.fail_count <= config'.fail_next_n /\ Counting'
    BY <1>1, <1>3, <1>4, <1>6 DEF Fails, Counting
  <1>8. FailsThenRecovers'
    <2>1. DOMAIN outcomes' = 1..(n + 1) /\ DOMAIN outcomes = 1..n
      BY <1>4, LenProperties DEF TypeOK
    <2>2. ASSUME NEW i \in 1..(n + 1) PROVE outcomes'[i] <=> i <= armed
      <3>1. CASE i = n + 1
        BY <1>4, <1>5, <3>1
      <3>2. CASE i \in 1..n
        BY <1>4, <2>1, <3>2 DEF FailsThenRecovers
      <3> QED
        BY <1>1, <3>1, <3>2
    <2> QED
      BY <1>3, <2>1, <2>2 DEF FailsThenRecovers
  <1> QED
    BY <1>4, <1>6, <1>7, <1>8

\* Every step keeps the invariant.
LEMMA StepInvariant == IInv /\ [Next]_vars => IInv'
  <1> SUFFICES ASSUME IInv, [Next]_vars PROVE IInv'
    OBVIOUS
  <1> USE DEF IInv
  <1>1. ASSUME NEW w \in Webhooks, Send(w) \/ Answer(w) PROVE IInv'
    <2>1. /\ UNCHANGED <<config, log, changes, history>>
          /\ pc' \in [Webhooks -> {"new", "sent", "sleeping", "answered"}]
      BY <1>1 DEF Send, Answer, Goto, TypeOK
    <2> QED
      BY <2>1 DEF history, TypeOK, Counting, FailsThenRecovers, LogKeepsNewest
  <1>2. ASSUME NEW w \in Webhooks, Handle(w) PROVE IInv'
    <2>1. /\ pc' \in [Webhooks -> {"new", "sent", "sleeping", "answered"}]
          /\ UNCHANGED <<changes, armed>>
      BY <1>2 DEF Handle, Goto, TypeOK
    <2>2. /\ config' \in [status_code : Codes, fail_next_n : FailCounts \cup {0},
                         timeout_mode : BOOLEAN, fail_count : Nat]
          /\ config'.fail_count <= config'.fail_next_n
          /\ outcomes' \in Seq(BOOLEAN) /\ Counting' /\ FailsThenRecovers'
      <3>1. CASE config.timeout_mode
        BY <1>2, <3>1 DEF Handle, TypeOK, Counting, FailsThenRecovers
      <3>2. CASE ~config.timeout_mode
        BY <1>2, <3>2, CountStep
      <3> QED
        BY <3>1, <3>2
    <2>3. TypeOK'
      BY <1>2, <2>1, <2>2, LogStep DEF TypeOK, Entries
    <2> QED
      BY <1>2, <2>2, <2>3, LogStep
  <1>3. ASSUME NEW code \in Codes \cup {Null}, NEW n \in FailCounts \cup {Null},
               NEW timeout \in BOOLEAN \cup {Null}, Update(code, n, timeout)
        PROVE  IInv'
    <2>1. changes' \in 0..MaxChanges /\ UNCHANGED <<log, pc, received>>
      BY <1>3, SizeAssumption DEF Update, Change, TypeOK
    <2>2. /\ config' = [status_code |-> Given(code, config.status_code),
                        fail_next_n |-> Given(n, config.fail_next_n),
                        timeout_mode |-> Given(timeout, config.timeout_mode),
                        fail_count |-> CountAfter(n)]
          /\ armed' = Given(n, armed)
          /\ outcomes' = IF n = Null THEN outcomes ELSE <<>>
      BY <1>3 DEF Update
    <2>3. /\ Given(code, config.status_code) \in Codes
          /\ Given(n, config.fail_next_n) \in FailCounts \cup {0}
          /\ Given(timeout, config.timeout_mode) \in BOOLEAN
          /\ Given(n, armed) \in FailCounts \cup {0}
          /\ CountAfter(n) \in Nat
      BY DEF Given, CountAfter, TypeOK
    <2>4. CASE n = Null
      <3>1. /\ UNCHANGED <<armed, outcomes>>
            /\ config'.fail_next_n = config.fail_next_n
            /\ config'.fail_count = config.fail_count
        BY <2>2, <2>4 DEF Given, CountAfter
      <3> QED
        BY <2>1, <2>2, <2>3, <3>1 DEF TypeOK, Counting, FailsThenRecovers, LogKeepsNewest
    <2>5. CASE n # Null
      <3>1. /\ n \in Nat /\ armed' = n /\ outcomes' = <<>>
            /\ config'.fail_next_n = n /\ config'.fail_count = 0
        BY <2>2, <2>5, FailAssumption DEF Given, CountAfter
      <3>2. /\ outcomes' \in Seq(BOOLEAN) /\ Len(outcomes') = 0 /\ DOMAIN outcomes' = {}
        BY <3>1
      <3>3. Counting' /\ FailsThenRecovers'
        BY <3>1, <3>2 DEF Counting, FailsThenRecovers
      <3>4. TypeOK' /\ LogKeepsNewest'
        BY <2>1, <2>2, <2>3, <3>1, <3>2 DEF TypeOK, LogKeepsNewest
      <3> QED
        BY <2>1, <3>3, <3>4
    <2> QED
      BY <2>4, <2>5
  <1>4. CASE Reset
    BY <1>4, SizeAssumption
    DEF Reset, Change, Defaults, TypeOK, Codes, Counting, FailsThenRecovers, LogKeepsNewest
  <1>5. CASE Clear
    BY <1>5, SizeAssumption DEF Clear, Change, TypeOK, Counting, FailsThenRecovers, LogKeepsNewest
  <1>6. CASE UNCHANGED vars
    BY <1>6 DEF vars, history, TypeOK, Counting, FailsThenRecovers, LogKeepsNewest
  <1> QED
    BY <1>1, <1>2, <1>3, <1>4, <1>5, <1>6 DEF Next, AllAnswered

-----------------------------------------------------------------------------
(* The theorems *)

\* receive_webhook, update_config and the resets keep fail_count in step with the
\* webhooks counted since fail_next_n was set: the invariant always holds.
THEOREM ReceiverInvariant == Spec => []IInv
  BY InitInvariant, StepInvariant, PTL DEF Spec

\* Every variable keeps its type: above all, fail_count never passes fail_next_n
\* and the log never its size.
THEOREM ReceiverTypeCorrect == Spec => []TypeOK
  BY ReceiverInvariant, PTL DEF IInv

\* Of the webhooks after the last setting of fail_next_n exactly the first N fail
\* (receive_webhook).
THEOREM AlwaysFailsThenRecovers == Spec => []FailsThenRecovers
  BY ReceiverInvariant, PTL DEF IInv

\* The log holds the newest webhooks, newest first (received_webhooks).
THEOREM LogAlwaysKeepsNewest == Spec => []LogKeepsNewest
  BY ReceiverInvariant, PTL DEF IInv
=============================================================================
