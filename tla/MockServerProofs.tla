-------------------------- MODULE MockServerProofs --------------------------
(***************************************************************************)
(* Proofs about MockServer: for any number of requests, routes, handlers,  *)
(* responses and their compositions, registered at any time.               *)
(***************************************************************************)
EXTENDS MockServer, FiniteSetTheorems, SequenceTheorems, WellFoundedInduction, TLAPS

(* the inductive invariant *)

\* The requests that must be in the history: those that got to a handler.
Reached == {r \in Request : pc[r] \in {"sleeping", "done"}
                   /\ answer[r] \notin {"HTTPNotFound", "UnicodeDecodeError"}}

IInv ==
    /\ TypeOK
    /\ history \in Seq(Request)
    /\ RecordedOnce
    /\ answer \in [Request -> Response \cup {Nothing, "HTTPNotFound", "UnicodeDecodeError",
                                              "MissingResponseError", "SequenceExhausted"}]
    /\ \A r \in Request : pc[r] \in {"idle", "reading", "sleeping"} => answer[r] = Nothing

-----------------------------------------------------------------------------
(* the steps *)

\* What a response makes of the task of its request: it is over with an answer
\* of that response, or sleeps and will ask one that answers at once.
LEMMA ServeFacts ==
    ASSUME IInv, NEW r \in Request, NEW x, Serve(r, x)
    PROVE  /\ \/ /\ pc' = [pc EXCEPT ![r] = "done"]
                 /\ \E a \in Plain \cup {"SequenceExhausted"} : answer' = [answer EXCEPT ![r] = a]
                 /\ UNCHANGED serving
              \/ /\ pc' = [pc EXCEPT ![r] = "sleeping"]
                 /\ \E y \in Plain \cup Sequence : serving' = [serving EXCEPT ![r] = y]
                 /\ UNCHANGED answer
           /\ index' \in [Sequence -> Nat]
  <1>1. ASSUME NEW y, ServeItem(r, y)
        PROVE  \/ /\ pc' = [pc EXCEPT ![r] = "done"]
                  /\ \E a \in Plain : answer' = [answer EXCEPT ![r] = a]
                  /\ UNCHANGED serving
               \/ /\ pc' = [pc EXCEPT ![r] = "sleeping"]
                  /\ \E z \in Plain \cup Sequence : serving' = [serving EXCEPT ![r] = z]
                  /\ UNCHANGED answer
    BY <1>1, ServerAssumption DEF ServeItem, Finish, Sleep
  <1>2. CASE x \notin Sequence
    BY <1>1, <1>2 DEF Serve, IInv, TypeOK
  <1>3. CASE x \in Sequence
    <2>1. index' = [index EXCEPT ![x] = AfterPick(x, @)]
      BY <1>3 DEF Serve
    <2>2. AfterPick(x, index[x]) \in Nat
      BY <1>3 DEF AfterPick, IInv, TypeOK
    <2>3. index' \in [Sequence -> Nat]
      BY <1>3, <2>1, <2>2 DEF IInv, TypeOK
    <2>4. Finish(r, "SequenceExhausted") \/ \E y : ServeItem(r, y)
      BY <1>3 DEF Serve
    <2>5. QED
      BY <2>3, <2>4, <1>1 DEF Finish
  <1>4. QED
    BY <1>2, <1>3

\* Steps of the test and of a client that record nothing.
LEMMA QuietStep ==
    ASSUME IInv, UNCHANGED <<history, answer, index, serving>>,
           handlers' \in [Handler -> Response \cup {Nothing}],
           \/ UNCHANGED pc
           \/ \E r \in Request : /\ pc[r] \in {"idle", "reading"}
                                 /\ pc' = [pc EXCEPT ![r] = IF pc[r] = "idle" THEN "reading"
                                                            ELSE "aborted"]
    PROVE  IInv'
  <1>1. /\ pc' \in [Request -> {"idle", "reading", "sleeping", "done", "aborted"}]
        /\ \A r \in Request : pc'[r] \in {"sleeping", "done"} <=> pc[r] \in {"sleeping", "done"}
        /\ \A r \in Request : pc'[r] \in {"idle", "reading"} => pc[r] \in {"idle", "reading"}
    BY DEF IInv, TypeOK
  <1>2. TypeOK'
    BY <1>1 DEF IInv, TypeOK
  <1>3. RecordedOnce'
    BY <1>1 DEF IInv, RecordedOnce
  <1>4. QED
    BY <1>1, <1>2, <1>3 DEF IInv

\* The steps of a task that was not told an answer yet.
LEMMA DispatchUnmatchedStep ==
    ASSUME IInv, NEW r \in Request, DispatchUnmatched(r)
    PROVE  IInv'
  <1>1. PICK a \in {"HTTPNotFound", "UnicodeDecodeError"} : answer' = [answer EXCEPT ![r] = a]
    BY DEF DispatchUnmatched, Finish
  <1>2. /\ pc[r] = "reading" /\ pc' = [pc EXCEPT ![r] = "done"]
        /\ UNCHANGED <<serving, handlers, history, index>>
    BY DEF DispatchUnmatched, Finish
  <1>3. TypeOK'
    BY <1>2 DEF IInv, TypeOK
  <1>4. Reached' = Reached
    BY <1>1, <1>2 DEF IInv, TypeOK, Reached
  <1>5. RecordedOnce'
    BY <1>2, <1>4 DEF IInv, RecordedOnce, Reached
  <1>6. QED
    BY <1>1, <1>2, <1>3, <1>5 DEF IInv, TypeOK

\* A request that is recorded was not recorded before: it was still being read.
LEMMA DispatchStep ==
    ASSUME IInv, NEW r \in Request, Dispatch(r)
    PROVE  IInv'
  <1> DEFINE Told == Plain \cup {"SequenceExhausted", "MissingResponseError"}
  <1>1. /\ pc[r] = "reading" /\ history' = Append(history, r) /\ UNCHANGED handlers
        /\ answer[r] = Nothing
    BY DEF Dispatch, IInv
  <1>2. /\ \/ /\ pc' = [pc EXCEPT ![r] = "done"]
              /\ \E a \in Told : answer' = [answer EXCEPT ![r] = a]
              /\ UNCHANGED serving
           \/ /\ pc' = [pc EXCEPT ![r] = "sleeping"]
              /\ \E y \in Plain \cup Sequence : serving' = [serving EXCEPT ![r] = y]
              /\ UNCHANGED answer
        /\ index' \in [Sequence -> Nat]
    <2>1. CASE Finish(r, "MissingResponseError") /\ UNCHANGED index
      BY <2>1 DEF Finish, IInv, TypeOK
    <2>2. CASE Serve(r, handlers[Chosen(r)])
      BY <2>2, ServeFacts
    <2>3. QED
      BY <2>1, <2>2 DEF Dispatch
  <1>3. \A a \in Told \cup {Nothing} : a \notin {"HTTPNotFound", "UnicodeDecodeError"}
    BY ServerAssumption DEF Response
  <1>4. /\ answer' \in [Request -> Response \cup {Nothing, "HTTPNotFound", "UnicodeDecodeError",
                                                "MissingResponseError", "SequenceExhausted"}]
        /\ answer'[r] \in Told \cup {Nothing}
        /\ pc'[r] \in {"sleeping", "done"}
        /\ (pc'[r] = "sleeping" => answer'[r] = Nothing)
        /\ \A q \in Request \ {r} : pc'[q] = pc[q] /\ answer'[q] = answer[q]
        /\ pc' \in [Request -> {"idle", "reading", "sleeping", "done", "aborted"}]
        /\ serving' \in [Request -> Plain \cup Sequence \cup {Nothing}]
    BY <1>1, <1>2 DEF IInv, TypeOK, Response
  <1>5. Reached' = Reached \cup {r} /\ r \notin Reached
    BY <1>1, <1>3, <1>4 DEF Reached
  <1>6. /\ history' \in Seq(Request) /\ IsInjective(history')
        /\ ToSet(history') = ToSet(history) \cup {r}
    <2>1. /\ history \in Seq(Request) /\ IsInjective(history)
          /\ \A i \in DOMAIN history : history[i] # r
      BY <1>5 DEF IInv, RecordedOnce, Reached, ToSet
    <2>2. /\ history' \in Seq(Request)
          /\ DOMAIN history' = 1..(Len(history) + 1) /\ DOMAIN history = 1..Len(history)
          /\ \A i \in 1..Len(history) : history'[i] = history[i]
          /\ history'[Len(history) + 1] = r
          /\ Len(history) \in Nat
      BY <1>1, <2>1
    <2>3. \A i \in DOMAIN history' : i \in DOMAIN history \/ i = Len(history) + 1
      BY <2>2
    <2>4. IsInjective(history')
      BY <2>1, <2>2, <2>3 DEF IsInjective
    <2>5. ToSet(history') = ToSet(history) \cup {r}
      BY <2>2, <2>3 DEF ToSet
    <2>6. QED
      BY <2>2, <2>4, <2>5
  <1>7. RecordedOnce'
    BY <1>5, <1>6 DEF IInv, RecordedOnce, Reached
  <1>8. TypeOK'
    BY <1>1, <1>2, <1>4, <1>6 DEF IInv, TypeOK
  <1>9. QED
    BY <1>4, <1>6, <1>7, <1>8 DEF IInv

LEMMA WakeUpStep ==
    ASSUME IInv, NEW r \in Request, WakeUp(r)
    PROVE  IInv'
  <1>1. /\ pc[r] = "sleeping" /\ answer[r] = Nothing
        /\ UNCHANGED <<handlers, history>>
    BY DEF WakeUp, IInv
  <1>2. /\ \/ /\ pc' = [pc EXCEPT ![r] = "done"]
              /\ \E a \in Plain \cup {"SequenceExhausted"} : answer' = [answer EXCEPT ![r] = a]
              /\ UNCHANGED serving
           \/ /\ pc' = [pc EXCEPT ![r] = "sleeping"]
              /\ \E y \in Plain \cup Sequence : serving' = [serving EXCEPT ![r] = y]
              /\ UNCHANGED answer
        /\ index' \in [Sequence -> Nat]
    BY ServeFacts DEF WakeUp
  <1>3. \A a \in Plain \cup {"SequenceExhausted", Nothing} :
            a \notin {"HTTPNotFound", "UnicodeDecodeError"}
    BY ServerAssumption DEF Response
  <1>4. /\ answer' \in [Request -> Response \cup {Nothing, "HTTPNotFound", "UnicodeDecodeError",
                                                "MissingResponseError", "SequenceExhausted"}]
        /\ answer'[r] \in Plain \cup {"SequenceExhausted", Nothing}
        /\ pc'[r] \in {"sleeping", "done"}
        /\ (pc'[r] = "sleeping" => answer'[r] = Nothing)
        /\ \A q \in Request \ {r} : pc'[q] = pc[q] /\ answer'[q] = answer[q]
        /\ pc' \in [Request -> {"idle", "reading", "sleeping", "done", "aborted"}]
        /\ serving' \in [Request -> Plain \cup Sequence \cup {Nothing}]
    BY <1>1, <1>2 DEF IInv, TypeOK, Response
  <1>5. Reached' = Reached
    BY <1>1, <1>3, <1>4 DEF Reached
  <1>6. RecordedOnce'
    BY <1>1, <1>5 DEF IInv, RecordedOnce, Reached
  <1>7. TypeOK'
    BY <1>1, <1>2, <1>4 DEF IInv, TypeOK
  <1>8. QED
    BY <1>1, <1>4, <1>6, <1>7 DEF IInv

-----------------------------------------------------------------------------
(* the invariant holds *)

LEMMA InitIInv == Init => IInv
  <1> SUFFICES ASSUME Init PROVE IInv
    OBVIOUS
  <1>1. TypeOK
    BY DEF Init, TypeOK, ToSet
  <1>2. history = <<>> /\ \A r \in Request : pc[r] = "idle"
    BY DEF Init
  <1>3. RecordedOnce
    BY <1>2 DEF RecordedOnce, IsInjective, ToSet
  <1>4. QED
    BY <1>1, <1>2, <1>3 DEF Init, IInv

LEMMA NextIInv == IInv /\ [Next]_vars => IInv'
  <1> SUFFICES ASSUME IInv, [Next]_vars PROVE IInv'
    OBVIOUS
  <1>1. ASSUME NEW h \in Handler, Register(h) PROVE IInv'
    BY <1>1, QuietStep DEF Register, IInv, TypeOK
  <1>2. ASSUME NEW r \in Request, Arrive(r) PROVE IInv'
    BY <1>2, QuietStep DEF Arrive, IInv, TypeOK
  <1>3. ASSUME NEW r \in Request, Abort(r) PROVE IInv'
    BY <1>3, QuietStep DEF Abort, IInv, TypeOK
  <1>4. CASE UNCHANGED vars
    BY <1>4, QuietStep DEF vars, IInv, TypeOK
  <1>5. QED
    BY <1>1, <1>2, <1>3, <1>4, DispatchUnmatchedStep, DispatchStep, WakeUpStep DEF Next

LEMMA Invariance == Spec => []IInv
  BY InitIInv, NextIInv, PTL DEF Spec

-----------------------------------------------------------------------------
(* the theorems *)

\* Tasks, registrations and the positions of the sequences keep their types: a
\* task that sleeps asks next a plain response or a sequence.
THEOREM TypeCorrect == Spec => []TypeOK
  <1>1. IInv => TypeOK
    BY DEF IInv
  <1>2. QED
    BY <1>1, Invariance, PTL

\* The history has every request that got to a handler once, without a response
\* as well, and no other, whatever is registered or delayed meanwhile.
THEOREM EachRecordedOnce == Spec => []RecordedOnce
  <1>1. IInv => RecordedOnce
    BY DEF IInv
  <1>2. QED
    BY <1>1, Invariance, PTL

-----------------------------------------------------------------------------
(* sequences *)

\* The position of a sequence after k picks.
Position(q, k) ==
    IF k < Len(Items[q]) \/ OnExhausted[q] = "cycle" THEN k ELSE Len(Items[q])

LEMMA ModFacts ==
    ASSUME NEW k \in Nat, NEW n \in Nat, n > 0
    PROVE  (k % n) + 1 \in 1..n /\ (k + 1) - 1 = k
  OBVIOUS

LEMMA PickFacts ==
    ASSUME NEW q \in Sequence, NEW k \in Nat
    PROVE  LET item == Pick(q, Position(q, k))
           IN  /\ AfterPick(q, Position(q, k)) = Position(q, k + 1)
               /\ item = Nothing => Promised(q, k + 1) = "SequenceExhausted"
               /\ item # Nothing =>
                      /\ item \in Plain \cup {l \in Latency : Wrapped[l] \in Plain}
                      /\ Promised(q, k + 1) = IF item \in Latency THEN Wrapped[item] ELSE item
  <1> DEFINE n == Len(Items[q])
             P == Plain \cup {l \in Latency : Wrapped[l] \in Plain}
             item == Pick(q, Position(q, k))
  <1>1. /\ Items[q] \in Seq(P) /\ n > 0 /\ OnExhausted[q] \in {"raise", "cycle", "last"}
        /\ Nothing \notin P
    BY ServerAssumption DEF Response
  <1> HIDE DEF P
  <1>2. n \in Nat /\ \A i \in 1..n : Items[q][i] \in P
    BY <1>1
  <1>3. (k % n) + 1 \in 1..n /\ (k + 1) - 1 = k
    BY <1>1, <1>2, ModFacts
  <1>4. AfterPick(q, Position(q, k)) = Position(q, k + 1)
    BY <1>1, <1>2 DEF AfterPick, Position
  <1>5. CASE k < n
    <2>1. item = Items[q][k + 1]
      BY <1>2, <1>5 DEF Pick, Position
    <2>2. k + 1 \in 1..n
      BY <1>2, <1>5
    <2>3. Promised(q, k + 1) = IF item \in Latency THEN Wrapped[item] ELSE item
      <3>1. k + 1 <= n /\ ~ (k + 1 > n)
        BY <1>2, <1>5
      <3> HIDE DEF item
      <3>2. QED
        BY <2>1, <3>1 DEF Promised
    <2>4. item \in P /\ item # Nothing
      BY <1>1, <1>2, <2>1, <2>2
    <2>5. QED
      BY <1>4, <2>3, <2>4 DEF P
  <1>6. CASE k >= n /\ OnExhausted[q] = "raise"
    <2>1. item = Nothing /\ Promised(q, k + 1) = "SequenceExhausted"
      BY <1>2, <1>6 DEF Pick, Position, Promised
    <2>2. QED
      BY <1>4, <2>1
  <1>7. CASE k >= n /\ OnExhausted[q] = "cycle"
    <2>1. item = Items[q][(k % n) + 1]
      BY <1>2, <1>7 DEF Pick, Position
    <2>2. Promised(q, k + 1) = IF item \in Latency THEN Wrapped[item] ELSE item
      BY <1>2, <1>3, <1>7, <2>1 DEF Promised
    <2>3. item \in P /\ item # Nothing
      BY <1>1, <1>2, <1>3, <2>1
    <2>4. QED
      BY <1>4, <2>2, <2>3 DEF P
  <1>8. CASE k >= n /\ OnExhausted[q] = "last"
    <2>1. item = Items[q][n]
      BY <1>2, <1>8 DEF Pick, Position
    <2>2. Promised(q, k + 1) = IF item \in Latency THEN Wrapped[item] ELSE item
      BY <1>2, <1>8, <2>1 DEF Promised
    <2>3. item \in P /\ item # Nothing
      BY <1>1, <1>2, <2>1
    <2>4. QED
      BY <1>4, <2>2, <2>3 DEF P
  <1>9. QED
    BY <1>1, <1>2, <1>5, <1>6, <1>7, <1>8

\* A request that took the i-th item has it as its answer, or sleeps before it.
PickOK(q, i) ==
    LET r == picked[q][i]
    IN  \/ pc[r] = "done" /\ answer[r] = Promised(q, i)
        \/ pc[r] = "sleeping" /\ serving[r] \in Plain /\ serving[r] = Promised(q, i)

PlayInv ==
    /\ picked \in [Sequence -> Seq(Request)]
    /\ \A q \in Sequence : index[q] = Position(q, Len(picked[q]))
    /\ \A q \in Sequence : \A i \in 1..Len(picked[q]) : PickOK(q, i)

\* A task that has not taken an item takes no part in what is promised.
LEMMA PlayQuiet ==
    ASSUME PlayInv, UNCHANGED <<index, picked>>,
           \A r \in Request : \/ pc[r] \notin {"sleeping", "done"}
                              \/ pc'[r] = pc[r] /\ serving'[r] = serving[r] /\ answer'[r] = answer[r]
    PROVE  PlayInv'
  <1>1. ASSUME NEW q \in Sequence, NEW i \in 1..Len(picked[q]) PROVE PickOK(q, i)'
    <2>1. PickOK(q, i) /\ picked[q][i] \in Request
      BY DEF PlayInv
    <2>2. QED
      BY <2>1 DEF PickOK, Promised
  <1>2. QED
    BY <1>1 DEF PlayInv, Position

LEMMA PlayServe ==
    ASSUME IInv, PlayInv, NEW r \in Request, NEW x, Serve(r, x),
           pc[r] = "reading" \/ (pc[r] = "sleeping" /\ x = serving[r])
    PROVE  PlayInv'
  <1>1. /\ pc \in [Request -> {"idle", "reading", "sleeping", "done", "aborted"}]
        /\ answer \in [Request -> Response \cup {Nothing, "HTTPNotFound", "UnicodeDecodeError",
                                                 "MissingResponseError", "SequenceExhausted"}]
        /\ serving \in [Request -> Plain \cup Sequence \cup {Nothing}]
        /\ index \in [Sequence -> Nat] /\ picked \in [Sequence -> Seq(Request)]
    BY DEF IInv, TypeOK, PlayInv
  <1>2. ASSUME NEW y, ServeItem(r, y)
        PROVE  /\ y \in Plain \cup Latency
               /\ \A p \in Request \ {r} : /\ pc'[p] = pc[p] /\ answer'[p] = answer[p]
                                           /\ serving'[p] = serving[p]
               /\ y \in Plain => pc'[r] = "done" /\ answer'[r] = y
               /\ y \in Latency => pc'[r] = "sleeping" /\ serving'[r] = Wrapped[y]
    <2>1. CASE y \in Plain /\ Finish(r, y)
      BY <1>1, <2>1, ServerAssumption DEF Finish
    <2>2. CASE y \in Latency /\ Sleep(r, y)
      BY <1>1, <2>2, ServerAssumption DEF Sleep
    <2>3. QED
      BY <1>2, <2>1, <2>2 DEF ServeItem
  <1>3. \A q \in Sequence : \A i \in 1..Len(picked[q]) : PickOK(q, i) /\ picked[q][i] \in Request
    BY <1>1 DEF PlayInv
  <1>4. CASE x \notin Sequence
    <2>1. ServeItem(r, x) /\ UNCHANGED <<index, picked>>
      BY <1>4 DEF Serve
    <2>2. ASSUME NEW q \in Sequence, NEW i \in 1..Len(picked[q]) PROVE PickOK(q, i)'
      <3>1. CASE picked[q][i] # r
        BY <1>2, <1>3, <2>1, <3>1 DEF PickOK, Promised
      <3>2. CASE picked[q][i] = r
        <4>1. x \in Plain /\ x = Promised(q, i)
          BY <1>3, <3>2 DEF PickOK
        <4>2. pc'[r] = "done" /\ answer'[r] = x
          BY <1>2, <2>1, <4>1
        <4>3. QED
          BY <2>1, <3>2, <4>1, <4>2 DEF PickOK, Promised
      <3>3. QED
        BY <3>1, <3>2
    <2>3. QED
      BY <2>1, <2>2 DEF PlayInv, Position
  <1>5. CASE x \in Sequence
    <2> DEFINE k == Len(picked[x])
               item == Pick(x, index[x])
    <2>1. /\ k \in Nat /\ index[x] = Position(x, k)
      BY <1>1, <1>5 DEF PlayInv
    <2>2. /\ index' = [index EXCEPT ![x] = AfterPick(x, @)]
          /\ picked' = [picked EXCEPT ![x] = Append(@, r)]
          /\ \/ item = Nothing /\ Finish(r, "SequenceExhausted")
             \/ item # Nothing /\ ServeItem(r, item)
      BY <1>5 DEF Serve
    <2>3. /\ index'[x] = Position(x, k + 1)
          /\ \A q \in Sequence \ {x} : index'[q] = index[q] /\ picked'[q] = picked[q]
          /\ picked'[x] = Append(picked[x], r)
      BY <1>1, <1>5, <2>1, <2>2, PickFacts
    <2>4. /\ picked'[x] \in Seq(Request) /\ Len(picked'[x]) = k + 1
          /\ picked'[x][k + 1] = r
          /\ \A i \in 1..k : picked'[x][i] = picked[x][i]
      BY <1>1, <1>5, <2>1, <2>3
    <2>5. \A q \in Sequence : \A i \in 1..Len(picked[q]) : picked[q][i] # r
      <3>1. x \notin Plain
        BY <1>5, ServerAssumption
      <3>2. QED
        BY <1>3, <3>1 DEF PickOK
    <2>6. \/ pc'[r] = "done" /\ answer'[r] = Promised(x, k + 1)
          \/ pc'[r] = "sleeping" /\ serving'[r] \in Plain /\ serving'[r] = Promised(x, k + 1)
      <3>1. CASE item = Nothing
        <4>1. Promised(x, k + 1) = "SequenceExhausted"
          BY <1>5, <2>1, <3>1, PickFacts
        <4>2. pc'[r] = "done" /\ answer'[r] = "SequenceExhausted"
          BY <1>1, <2>2, <3>1 DEF Finish
        <4>3. QED
          BY <4>1, <4>2
      <3>2. CASE item # Nothing
        <4>1. /\ item \in Plain \cup {l \in Latency : Wrapped[l] \in Plain}
              /\ Promised(x, k + 1) = IF item \in Latency THEN Wrapped[item] ELSE item
          BY <1>5, <2>1, <3>2, PickFacts
        <4>2. ServeItem(r, item)
          BY <2>2, <3>2
        <4> HIDE DEF item, k
        <4>3. QED
          BY <1>2, <4>1, <4>2, ServerAssumption
      <3>3. QED
        BY <3>1, <3>2
    <2>7. \A p \in Request \ {r} : /\ pc'[p] = pc[p] /\ answer'[p] = answer[p]
                                   /\ serving'[p] = serving[p]
      BY <1>1, <1>2, <2>2 DEF Finish
    <2> HIDE DEF item, k
    <2>8. ASSUME NEW q \in Sequence, NEW i \in 1..Len(picked[q])
          PROVE  picked'[q][i] = picked[q][i] /\ PickOK(q, i)'
      <3>1. picked'[q][i] = picked[q][i]
        BY <2>3, <2>4 DEF k
      <3>2. picked[q][i] \in Request \ {r} /\ PickOK(q, i)
        BY <1>3, <2>5
      <3>3. QED
        BY <2>7, <3>1, <3>2 DEF PickOK, Promised
    <2>9. ASSUME NEW i, i = k + 1 PROVE PickOK(x, i)'
      BY <2>4, <2>6, <2>9 DEF PickOK, Promised
    <2>10. \A q \in Sequence : \A i \in 1..Len(picked'[q]) : PickOK(q, i)'
      BY <2>1, <2>3, <2>4, <2>8, <2>9 DEF k
    <2>11. picked' \in [Sequence -> Seq(Request)]
      BY <1>1, <1>5, <2>2, <2>4
    <2>12. \A q \in Sequence : index'[q] = Position(q, Len(picked'[q]))
      BY <2>3, <2>4 DEF PlayInv
    <2>13. QED
      BY <2>10, <2>11, <2>12 DEF PlayInv, Position
  <1>6. QED
    BY <1>4, <1>5

LEMMA PlayInvariance == Spec => []PlayInv
  <1>1. Init => PlayInv
    BY DEF Init, PlayInv, Position
  <1>2. IInv /\ PlayInv /\ [Next]_vars => PlayInv'
    <2> SUFFICES ASSUME IInv, PlayInv, [Next]_vars PROVE PlayInv'
      OBVIOUS
    <2>1. ASSUME NEW h \in Handler, Register(h) PROVE PlayInv'
      BY <2>1, PlayQuiet DEF Register
    <2>2. ASSUME NEW r \in Request, Arrive(r) \/ Abort(r) PROVE PlayInv'
      BY <2>2, PlayQuiet DEF Arrive, Abort, IInv, TypeOK
    <2>3. ASSUME NEW r \in Request, DispatchUnmatched(r) PROVE PlayInv'
      BY <2>3, PlayQuiet DEF DispatchUnmatched, Finish, IInv, TypeOK
    <2>4. ASSUME NEW r \in Request, Dispatch(r) PROVE PlayInv'
      <3>1. CASE Serve(r, handlers[Chosen(r)])
        BY <2>4, <3>1, PlayServe DEF Dispatch
      <3>2. CASE Finish(r, "MissingResponseError") /\ UNCHANGED <<index, picked>>
        BY <2>4, <3>2, PlayQuiet DEF Dispatch, Finish, IInv, TypeOK
      <3>3. QED
        BY <2>4, <3>1, <3>2 DEF Dispatch
    <2>5. ASSUME NEW r \in Request, WakeUp(r) PROVE PlayInv'
      BY <2>5, PlayServe DEF WakeUp
    <2>6. CASE UNCHANGED vars
      BY <2>6, PlayQuiet DEF vars
    <2>7. QED
      BY <2>1, <2>2, <2>3, <2>4, <2>5, <2>6 DEF Next
  <1>3. QED
    BY <1>1, <1>2, Invariance, PTL DEF Spec

\* Whichever handlers share a sequence, and however latencies delay what it plays
\* or when it is asked, each of its items is the answer of one request, in order.
THEOREM SequencesPlayInOrder == Spec => []PlayedInOrder
  <1>1. PlayInv => PlayedInOrder
    BY DEF PlayInv, PickOK, PlayedInOrder
  <1>2. QED
    BY <1>1, PlayInvariance, PTL

-----------------------------------------------------------------------------
(* selections: the part of a sequence that is in a set *)

\* Where in seq the elements of S are, and the how manieth of them is at k.
Places(seq, S) == {k \in 1..Len(seq) : seq[k] \in S}
Rank(places, k) == Cardinality({i \in places : i <= k})

\* Selects in terms of places and ranks.
LEMMA SelectsDef ==
    ASSUME NEW sub, NEW seq, NEW S
    PROVE  Selects(sub, seq, S) <=>
               /\ Len(sub) = Cardinality(Places(seq, S))
               /\ \A k \in Places(seq, S) : sub[Rank(Places(seq, S), k)] = seq[k]
  BY DEF Selects, Places, Rank

\* The places are finitely many, and the rank of one is a position among them.
LEMMA PlacesFacts ==
    ASSUME NEW T, NEW seq \in Seq(T), NEW S
    PROVE  /\ IsFiniteSet(Places(seq, S))
           /\ Cardinality(Places(seq, S)) \in Nat
           /\ \A k \in Places(seq, S) :
                  /\ Rank(Places(seq, S), k) \in 1..Cardinality(Places(seq, S))
  <1> DEFINE P == Places(seq, S)
  <1>1. IsFiniteSet(P)
    <2>1. P \in SUBSET (1..Len(seq)) /\ Len(seq) \in Nat
      BY DEF Places
    <2>2. IsFiniteSet(1..Len(seq))
      BY <2>1, FS_Interval
    <2> HIDE DEF P
    <2>3. QED
      BY <2>1, <2>2, FS_Subset
  <1>2. Cardinality(P) \in Nat
    BY <1>1, FS_CardinalityType
  <1>3. ASSUME NEW k \in P PROVE Rank(P, k) \in 1..Cardinality(P)
    <2> DEFINE B == {i \in P : i <= k}
    <2>1. k \in B /\ B \in SUBSET P
      BY DEF Places
    <2> HIDE DEF P, B
    <2>2. IsFiniteSet(B) /\ Cardinality(B) <= Cardinality(P) /\ Cardinality(B) \in Nat
      BY <1>1, <2>1, FS_Subset, FS_CardinalityType
    <2>3. Cardinality(B) # 0
      BY <2>1, <2>2, FS_EmptySet
    <2>4. QED
      BY <1>2, <2>2, <2>3 DEF Rank, B
  <1>4. QED
    BY <1>1, <1>2, <1>3

\* One more element is at the end of the selection, or not in it.
LEMMA SelectsGrows ==
    ASSUME NEW T, NEW sub \in Seq(T), NEW seq \in Seq(T), NEW x \in T, NEW S, Selects(sub, seq, S)
    PROVE  /\ x \in S => Selects(Append(sub, x), Append(seq, x), S)
           /\ x \notin S => Selects(sub, Append(seq, x), S)
  <1> DEFINE n == Len(seq)
             longer == Append(seq, x)
             P == Places(seq, S)
             Q == Places(longer, S)
  <1>1. /\ n \in Nat /\ longer \in Seq(T) /\ Len(longer) = n + 1 /\ longer[n + 1] = x
        /\ \A k \in 1..n : longer[k] = seq[k]
    OBVIOUS
  <1>2. /\ IsFiniteSet(P) /\ Cardinality(P) \in Nat
        /\ \A k \in P : Rank(P, k) \in 1..Cardinality(P)
        /\ P \subseteq 1..n
    BY PlacesFacts DEF Places
  <1>3. /\ Len(sub) = Cardinality(P)
        /\ \A k \in P : sub[Rank(P, k)] = seq[k]
    BY SelectsDef
  <1> HIDE DEF n, longer
  <1>4. Q = IF x \in S THEN P \cup {n + 1} ELSE P
    BY <1>1 DEF Places, n
  <1> HIDE DEF P, Q
  <1>5. \A k \in P : Rank(Q, k) = Rank(P, k) /\ k \in 1..n
    <2>1. \A k \in P : {i \in Q : i <= k} = {i \in P : i <= k}
      BY <1>1, <1>2, <1>4
    <2>2. QED
      BY <1>2, <2>1 DEF Rank
  <1>6. CASE x \in S
    <2>1. n + 1 \notin P /\ \A i \in Q : i <= n + 1
      <3>1. \A i \in P : i \in Int /\ i <= n
        BY <1>1, <1>2
      <3>2. QED
        BY <1>1, <1>4, <1>6, <3>1
    <2>2. Cardinality(Q) = Cardinality(P) + 1
      BY <1>2, <1>4, <1>6, <2>1, FS_AddElement
    <2>3. {i \in Q : i <= n + 1} = Q
      BY <2>1
    <2>4. Rank(Q, n + 1) = Cardinality(P) + 1
      BY <2>2, <2>3 DEF Rank
    <2> DEFINE more == Append(sub, x)
    <2>5. /\ Len(more) = Cardinality(P) + 1
          /\ more[Cardinality(P) + 1] = x
          /\ \A i \in 1..Cardinality(P) : more[i] = sub[i]
      BY <1>2, <1>3
    <2> HIDE DEF more
    <2>6. \A k \in Q : more[Rank(Q, k)] = longer[k]
      <3>1. ASSUME NEW k \in P PROVE more[Rank(Q, k)] = longer[k]
        BY <1>1, <1>2, <1>3, <1>5, <2>5
      <3>2. more[Rank(Q, n + 1)] = longer[n + 1]
        BY <1>1, <2>4, <2>5
      <3>3. QED
        BY <1>4, <1>6, <3>1, <3>2
    <2>7. QED
      BY <1>6, <2>2, <2>5, <2>6, SelectsDef DEF Q, longer, more
  <1>7. CASE x \notin S
    <2>1. \A k \in Q : sub[Rank(Q, k)] = longer[k]
      BY <1>1, <1>3, <1>4, <1>5, <1>7
    <2>2. QED
      BY <1>3, <1>4, <1>7, <2>1, SelectsDef DEF Q, longer
  <1>8. QED
    BY <1>6, <1>7

\* A selection is by what it says of the elements that are there.
LEMMA SelectsSame ==
    ASSUME NEW sub, NEW seq, NEW S, NEW R, \A k \in 1..Len(seq) : seq[k] \in S <=> seq[k] \in R,
           Selects(sub, seq, S)
    PROVE  Selects(sub, seq, R)
  <1>1. Places(seq, S) = Places(seq, R)
    BY DEF Places
  <1>2. QED
    BY <1>1, SelectsDef

\* The elements of a selection are those at the places, in their order.
LEMMA SelectsOrder ==
    ASSUME NEW T, NEW sub \in Seq(T), NEW seq \in Seq(T), NEW S, Selects(sub, seq, S)
    PROVE  \E g \in [1..Len(sub) -> 1..Len(seq)] :
               /\ \A i, j \in 1..Len(sub) : i < j => g[i] < g[j]
               /\ {g[i] : i \in 1..Len(sub)} = Places(seq, S)
               /\ \A i \in 1..Len(sub) : sub[i] = seq[g[i]]
  <1> DEFINE P == Places(seq, S)
             n == Cardinality(P)
             f == [k \in P |-> Rank(P, k)]
             g == [i \in 1..n |-> CHOOSE k \in P : Rank(P, k) = i]
  <1>1. /\ IsFiniteSet(P) /\ n \in Nat /\ P \subseteq 1..Len(seq) /\ Len(seq) \in Nat
        /\ \A k \in P : Rank(P, k) \in 1..n
    <2>1. P \subseteq 1..Len(seq) /\ Len(seq) \in Nat
      BY DEF Places
    <2>2. QED
      BY <2>1, PlacesFacts
  <1>2. /\ Len(sub) = n
        /\ \A k \in P : sub[Rank(P, k)] = seq[k]
    BY SelectsDef
  <1> HIDE DEF P
  <1>3. \A k \in P : k \in Int
    BY <1>1
  <1>4. ASSUME NEW i \in P, NEW j \in P, i < j PROVE Rank(P, i) < Rank(P, j)
    <2> DEFINE A == {k \in P : k <= i}
               B == {k \in P : k <= j}
    <2>1. A \in SUBSET B /\ B \in SUBSET P /\ j \in B /\ j \notin A
      BY <1>3, <1>4
    <2> HIDE DEF A, B
    <2>2. IsFiniteSet(A) /\ IsFiniteSet(B)
      <3>1. IsFiniteSet(B)
        BY <1>1, <2>1, FS_Subset
      <3>2. QED
        BY <2>1, <3>1, FS_Subset
    <2>3. /\ Cardinality(A) <= Cardinality(B) /\ Cardinality(A) # Cardinality(B)
          /\ Cardinality(A) \in Nat /\ Cardinality(B) \in Nat
      <3>1. Cardinality(A) <= Cardinality(B) /\ (Cardinality(B) = Cardinality(A) => B = A)
        BY <2>1, <2>2, FS_Subset
      <3>2. A # B
        BY <2>1
      <3>3. QED
        BY <2>2, <3>1, <3>2, FS_CardinalityType
    <2>4. QED
      BY <2>3 DEF Rank, A, B
  <1>5. \A i, j \in P : Rank(P, i) = Rank(P, j) => i = j
    <2>1. \A k \in P : k \in Int /\ Rank(P, k) \in Int
      BY <1>1
    <2>2. QED
      BY <1>4, <2>1
  <1>6. \A i \in 1..n : \E k \in P : Rank(P, k) = i
    <2>1. f \in Injection(P, 1..n)
      BY <1>1, <1>5 DEF Injection, IsInjective
    <2>2. IsFiniteSet(1..n) /\ Cardinality(1..n) = n
      BY <1>1, FS_Interval
    <2>3. f \in Surjection(P, 1..n)
      BY <2>1, <2>2, FS_Injection
    <2>4. QED
      BY <2>3 DEF Surjection
  <1> HIDE DEF n
  <1>7. \A i \in 1..n : g[i] \in P /\ Rank(P, g[i]) = i
    BY <1>6
  <1> HIDE DEF g
  <1>8. g \in [1..n -> 1..Len(seq)]
    BY <1>1, <1>7 DEF g
  <1>9. \A i, j \in 1..n : i < j => g[i] < g[j]
    <2>1. SUFFICES ASSUME NEW i \in 1..n, NEW j \in 1..n, i < j, ~ (g[i] < g[j]) PROVE FALSE
      OBVIOUS
    <2>2. /\ g[i] \in P /\ Rank(P, g[i]) = i /\ g[i] \in Int
          /\ g[j] \in P /\ Rank(P, g[j]) = j /\ g[j] \in Int
      BY <1>3, <1>7, <2>1
    <2>3. g[j] < g[i] \/ g[j] = g[i]
      BY <2>1, <2>2
    <2>4. i \in Int /\ j \in Int
      BY <1>1
    <2>5. CASE g[j] < g[i]
      <3>1. j < i
        BY <1>4, <2>2, <2>5
      <3>2. QED
        BY <2>1, <2>4, <3>1
    <2>6. CASE g[j] = g[i]
      <3>1. i = j
        BY <2>2, <2>6
      <3>2. QED
        BY <2>1, <2>4, <3>1
    <2>7. QED
      BY <2>3, <2>5, <2>6
  <1>10. {g[i] : i \in 1..n} = P
    <2>1. \A k \in P : Rank(P, k) \in 1..n /\ g[Rank(P, k)] = k
      BY <1>1, <1>5, <1>7
    <2>2. QED
      BY <1>7, <2>1
  <1>11. \A i \in 1..n : sub[i] = seq[g[i]]
    BY <1>2, <1>7
  <1>12. QED
    BY <1>2, <1>8, <1>9, <1>10, <1>11 DEF P

\* Of nothing, nothing is selected.
LEMMA SelectsNothing ==
    ASSUME NEW S
    PROVE  Selects(<<>>, <<>>, S)
  <1>1. Places(<<>>, S) = {}
    BY DEF Places
  <1>2. QED
    BY <1>1, SelectsDef, FS_EmptySet

-----------------------------------------------------------------------------
(* the histories of the handlers *)

\* The requests of a handler, among those of the history.
OfHandler(h, seq) == {r \in ToSet(seq) : Chosen(r) = h}

\* What the proof that the histories agree needs.
MapInv ==
    /\ history_map \in [Handler -> Seq(Request)]
    /\ \A h \in Handler : Selects(history_map[h], history, OfHandler(h, history))

\* A dispatch adds its request at the end of both histories, and of no other.
LEMMA MapStep ==
    ASSUME IInv, MapInv, NEW r \in Request, Dispatch(r)
    PROVE  MapInv'
  <1>1. /\ history \in Seq(Request)
        /\ history' = Append(history, r)
        /\ history_map' = [history_map EXCEPT ![Chosen(r)] = Append(@, r)]
    BY DEF IInv, Dispatch
  <1>2. history_map' \in [Handler -> Seq(Request)]
    <2>1. ASSUME NEW h \in Handler PROVE history_map'[h] \in Seq(Request)
      <3>1. history_map[h] \in Seq(Request) /\ Append(history_map[h], r) \in Seq(Request)
        BY DEF MapInv
      <3>2. history_map'[h] = history_map[h] \/ history_map'[h] = Append(history_map[h], r)
        BY <1>1 DEF MapInv
      <3>3. QED
        BY <3>1, <3>2
    <2>2. history_map' = [h \in Handler |-> history_map'[h]]
      BY <1>1 DEF MapInv
    <2>3. QED
      BY <2>1, <2>2
  <1>3. /\ ToSet(history') = ToSet(history) \cup {r}
        /\ \A k \in 1..Len(history) : history[k] \in ToSet(history)
    <2>1. /\ DOMAIN history = 1..Len(history) /\ Len(history) \in Nat
          /\ DOMAIN history' = 1..(Len(history) + 1) /\ history'[Len(history) + 1] = r
          /\ \A k \in 1..Len(history) : history'[k] = history[k]
      BY <1>1
    <2>2. QED
      BY <2>1 DEF ToSet
  <1>4. ASSUME NEW h \in Handler
        PROVE  Selects(history_map'[h], history', OfHandler(h, history'))
    <2> DEFINE S == OfHandler(h, history')
    <2>1. r \in S <=> h = Chosen(r)
      BY <1>3 DEF OfHandler
    <2>2. Selects(history_map[h], history, S)
      <3>1. \A k \in 1..Len(history) : history[k] \in OfHandler(h, history) <=> history[k] \in S
        BY <1>3 DEF OfHandler
      <3>2. Selects(history_map[h], history, OfHandler(h, history))
        BY DEF MapInv
      <3> HIDE DEF S
      <3>3. QED
        BY <3>1, <3>2, SelectsSame
    <2>3. history_map[h] \in Seq(Request)
      BY DEF MapInv
    <2> HIDE DEF S
    <2>4. CASE h = Chosen(r)
      <3>1. history_map'[h] = Append(history_map[h], r)
        BY <1>1, <2>4 DEF MapInv
      <3>2. QED
        BY <1>1, <2>1, <2>2, <2>3, <2>4, <3>1, SelectsGrows DEF S
    <2>5. CASE h # Chosen(r)
      <3>1. history_map'[h] = history_map[h]
        BY <1>1, <2>5 DEF MapInv
      <3>2. QED
        BY <1>1, <2>1, <2>2, <2>3, <2>5, <3>1, SelectsGrows DEF S
    <2>6. QED
      BY <2>4, <2>5
  <1>5. QED
    BY <1>2, <1>4 DEF MapInv

LEMMA MapInvariance == Spec => []MapInv
  <1>1. Init => MapInv
    <2> SUFFICES ASSUME Init PROVE MapInv
      OBVIOUS
    <2>1. history = <<>> /\ \A h \in Handler : history_map[h] = <<>>
      BY DEF Init
    <2>2. history_map \in [Handler -> Seq(Request)]
      BY DEF Init
    <2>3. QED
      BY <2>1, <2>2, SelectsNothing DEF MapInv
  <1>2. IInv /\ MapInv /\ [Next]_vars => MapInv'
    <2> SUFFICES ASSUME IInv, MapInv, [Next]_vars PROVE MapInv'
      OBVIOUS
    <2>1. CASE \E r \in Request : Dispatch(r)
      BY <2>1, MapStep
    <2>2. CASE UNCHANGED <<history, history_map>>
      BY <2>2 DEF MapInv, OfHandler
    <2>3. QED
      BY <2>1, <2>2 DEF Next, vars, Register, Arrive, Abort, DispatchUnmatched, WakeUp
  <1>3. QED
    BY <1>1, <1>2, Invariance, PTL DEF Spec

\* Whatever handlers have a response and whatever raises, each per-handler history is
\* the one history with the calls of the other handlers left out.
THEOREM HistoriesStayTheSame == Spec => []HistoriesAgree
  <1>1. MapInv => HistoriesAgree
    BY DEF MapInv, HistoriesAgree, OfHandler
  <1>2. QED
    BY <1>1, MapInvariance, PTL

-----------------------------------------------------------------------------
(* the order of a sequence of responses *)

\* No latency delays it.
Undelayed(q) == \A l \in Latency : Wrapped[l] # q

\* A task asleep asks only what a latency delays next, so that what none delays is
\* played in the step that records the request.
FollowInv ==
    /\ \A r \in Request : pc[r] = "sleeping" /\ serving[r] \in Sequence => ~ Undelayed(serving[r])
    /\ \A q \in Sequence : Undelayed(q) => Selects(picked[q], history, ToSet(picked[q]))

\* A task that begins to sleep asks next what a latency wraps.
LEMMA SleepFacts ==
    ASSUME IInv, NEW r \in Request, NEW x, Serve(r, x)
    PROVE  /\ pc' = [pc EXCEPT ![r] = pc'[r]] /\ serving' = [serving EXCEPT ![r] = serving'[r]]
           /\ pc'[r] = "sleeping" => \E l \in Latency : serving'[r] = Wrapped[l]
           /\ x \notin Sequence => UNCHANGED picked
           /\ x \in Sequence => picked' = [picked EXCEPT ![x] = Append(@, r)]
  <1>1. pc \in [Request -> {"idle", "reading", "sleeping", "done", "aborted"}]
        /\ serving \in [Request -> Plain \cup Sequence \cup {Nothing}]
    BY DEF IInv, TypeOK
  <1>2. \/ \E a : Finish(r, a)
        \/ \E l \in Latency : Sleep(r, l)
    BY DEF Serve, ServeItem
  <1>3. CASE \E a : Finish(r, a)
    BY <1>1, <1>3 DEF Finish, Serve
  <1>4. CASE \E l \in Latency : Sleep(r, l)
    BY <1>1, <1>4 DEF Sleep, Serve
  <1>5. QED
    BY <1>2, <1>3, <1>4

\* A dispatch keeps it: the new request is the last of the history and of the sequence.
LEMMA FollowStep ==
    ASSUME IInv, PlayInv, FollowInv, NEW r \in Request, Dispatch(r)
    PROVE  FollowInv'
  <1>1. /\ history \in Seq(Request) /\ picked \in [Sequence -> Seq(Request)]
        /\ history' = Append(history, r)
        /\ pc[r] = "reading"
    BY DEF IInv, PlayInv, Dispatch
  <1>2. r \notin ToSet(history)
    BY <1>1 DEF IInv, RecordedOnce
  <1>3. \A q \in Sequence : r \notin ToSet(picked[q])
    BY <1>1 DEF PlayInv, PickOK, ToSet
  <1>4. \/ /\ Finish(r, "MissingResponseError")
           /\ UNCHANGED picked
        \/ Serve(r, handlers[Chosen(r)])
    BY DEF Dispatch
  <1>5. ASSUME NEW p \in Request, pc'[p] = "sleeping", serving'[p] \in Sequence
        PROVE  ~ Undelayed(serving'[p])
    <2>1. CASE Finish(r, "MissingResponseError")
      BY <1>5, <2>1 DEF Finish, FollowInv, IInv, TypeOK
    <2>2. CASE Serve(r, handlers[Chosen(r)])
      BY <1>5, <2>2, SleepFacts DEF FollowInv, Undelayed, IInv, TypeOK
    <2>3. QED
      BY <1>4, <2>1, <2>2
  <1>6. ASSUME NEW q \in Sequence, Undelayed(q)
        PROVE  Selects(picked'[q], history', ToSet(picked'[q]))
    <2>1. Selects(picked[q], history, ToSet(picked[q])) /\ picked[q] \in Seq(Request)
      BY <1>1, <1>6 DEF FollowInv
    <2>2. CASE picked'[q] = picked[q]
      BY <1>1, <1>3, <2>1, <2>2, SelectsGrows
    <2>3. CASE picked'[q] = Append(picked[q], r)
      <3>1. ToSet(picked'[q]) = ToSet(picked[q]) \cup {r}
        <4> DEFINE s == picked[q]
                   t == picked'[q]
        <4>1. /\ DOMAIN s = 1..Len(s) /\ DOMAIN t = 1..(Len(s) + 1) /\ Len(s) \in Nat
              /\ t[Len(s) + 1] = r /\ \A k \in 1..Len(s) : t[k] = s[k]
          BY <2>1, <2>3
        <4> HIDE DEF s, t
        <4>2. QED
          BY <4>1 DEF ToSet, s, t
      <3>2. \A k \in 1..Len(history) : history[k] # r
        BY <1>1, <1>2 DEF ToSet
      <3>3. Selects(picked[q], history, ToSet(picked'[q]))
        BY <2>1, <3>1, <3>2, SelectsSame
      <3>4. QED
        BY <1>1, <2>1, <2>3, <3>1, <3>3, SelectsGrows
    <2>4. QED
      BY <1>1, <1>4, <2>2, <2>3, SleepFacts
  <1>7. QED
    BY <1>5, <1>6 DEF FollowInv, Undelayed

\* A sleeper that wakes up plays only sequences some latency delays.
LEMMA FollowWakeStep ==
    ASSUME IInv, PlayInv, FollowInv, NEW r \in Request, WakeUp(r)
    PROVE  FollowInv'
  <1>1. Serve(r, serving[r]) /\ pc[r] = "sleeping" /\ UNCHANGED history
    BY DEF WakeUp
  <1>2. \A p \in Request :
            pc'[p] = "sleeping" /\ serving'[p] \in Sequence => ~ Undelayed(serving'[p])
    BY <1>1, SleepFacts DEF FollowInv, Undelayed, IInv, TypeOK
  <1>3. \A q \in Sequence : Undelayed(q) => picked'[q] = picked[q]
    BY <1>1, SleepFacts DEF FollowInv, PlayInv
  <1>4. QED
    BY <1>1, <1>2, <1>3 DEF FollowInv, Undelayed

LEMMA FollowInvariance == Spec => []FollowInv
  <1>1. Init => FollowInv
    <2> SUFFICES ASSUME Init PROVE FollowInv
      OBVIOUS
    <2>1. /\ history = <<>> /\ \A q \in Sequence : picked[q] = <<>>
          /\ \A r \in Request : pc[r] = "idle"
      BY DEF Init
    <2>2. QED
      BY <2>1, SelectsNothing DEF FollowInv
  <1>2. IInv /\ PlayInv /\ FollowInv /\ [Next]_vars => FollowInv'
    <2> SUFFICES ASSUME IInv, PlayInv, FollowInv, [Next]_vars PROVE FollowInv'
      OBVIOUS
    <2>1. ASSUME UNCHANGED <<history, picked, serving>>,
                 \A p \in Request : pc'[p] = "sleeping" => pc[p] = "sleeping"
          PROVE  FollowInv'
      BY <2>1 DEF FollowInv, Undelayed
    <2>2. ASSUME NEW h \in Handler, Register(h) PROVE FollowInv'
      BY <2>1, <2>2 DEF Register
    <2>3. ASSUME NEW r \in Request, Arrive(r) \/ Abort(r) \/ DispatchUnmatched(r) PROVE FollowInv'
      BY <2>1, <2>3 DEF Arrive, Abort, DispatchUnmatched, Finish, IInv, TypeOK
    <2>4. CASE UNCHANGED vars
      BY <2>1, <2>4 DEF vars
    <2>5. QED
      BY <2>2, <2>3, <2>4, FollowStep, FollowWakeStep DEF Next
  <1>3. QED
    BY <1>1, <1>2, Invariance, PlayInvariance, PTL DEF Spec

\* Only a latency comes between the recording of a request and the turn it has in
\* a sequence: those of a sequence without one have its items in history's order.
THEOREM SequencesFollowHistory == Spec => []SequenceFollowsHistory
  <1>1. FollowInv => SequenceFollowsHistory
    BY DEF FollowInv, SequenceFollowsHistory, Undelayed
  <1>2. QED
    BY <1>1, FollowInvariance, PTL

-----------------------------------------------------------------------------
(* what the assertions of a test tell *)

\* Nat is well ordered.
LEMMA LeastOfSome ==
  ASSUME NEW T, T \subseteq Nat, T # {}
  PROVE  \E x \in T : \A y \in T : x <= y
  <1> DEFINE U == {1..n : n \in T}
  <1>1. \A n \in Nat : 1..n \in SUBSET Nat /\ IsFiniteSet(1..n)
    BY FS_Interval
  <1>2. U \subseteq FiniteSubsetsOf(Nat) /\ U # {}
    BY <1>1 DEF FiniteSubsetsOf
  <1>3. PICK u \in U : \A v \in U : ~ (<<v, u>> \in StrictSubsetOrdering(Nat))
    BY <1>2, FS_StrictSubsetOrderingWellFounded, WFMin
  <1>4. PICK x \in T : u = 1..x
    BY <1>3
  <1>5. ASSUME NEW y \in T, y < x PROVE FALSE
    <2>1. /\ 1..y \in SUBSET Nat /\ 1..x \in SUBSET Nat
          /\ 1..y \subseteq 1..x /\ x \in 1..x /\ x \notin 1..y
      BY <1>5
    <2>2. <<1..y, 1..x>> \in StrictSubsetOrdering(Nat)
      BY <2>1 DEF StrictSubsetOrdering
    <2>3. QED
      BY <1>3, <1>4, <2>2
  <1>6. QED
    BY <1>5

\* A request matches if it satisfies the predicates, and raises only for a body that is
\* no text.
LEMMA AnswerFacts ==
    ASSUME NEW criteria \in Criteria, NEW call
    PROVE  LET satisfied == /\ criteria.body # Nothing => criteria.body = call.body
                            /\ criteria.json # Nothing => criteria.json = Json[call.body]
                            /\ HasAll(call.headers, criteria.headers)
                            /\ HasAll(call.query, criteria.query)
           IN  /\ Answer(criteria, call) = "yes" <=> satisfied
               /\ Answer(criteria, call) = "raises" =>
                      criteria.json # Nothing /\ Json[call.body] = NotText
               /\ Answer(criteria, call) \in {"yes", "raises", "no"}
  BY ServerAssumption DEF Answer

\* What assert_called says of a list of calls, in terms of their answers.
LEMMA CalledFacts ==
    ASSUME NEW calls, Len(calls) \in Nat, DOMAIN calls = 1..Len(calls),
           NEW times \in Nat \cup {Nothing}, NEW criteria \in Criteria
    PROVE  LET told == AssertCalled(calls, times, criteria)
               yes  == {i \in 1..Len(calls) : Answer(criteria, calls[i]) = "yes"}
           IN  \/ /\ told = "passes"
                  /\ times # Nothing => Len(calls) = times
                  /\ yes # {} \/ (criteria = NoCriteria /\ times # Nothing)
               \/ /\ told = "AssertionError"
                  /\ \/ yes = {} /\ ~ (criteria = NoCriteria /\ times # Nothing)
                     \/ times # Nothing /\ Len(calls) # times
               \/ /\ told = "UnicodeDecodeError"
                  /\ \E i \in 1..Len(calls) :
                         /\ Answer(criteria, calls[i]) = "raises"
                         /\ \A j \in yes : i < j
  <1> DEFINE decided == {i \in 1..Len(calls) : Answer(criteria, calls[i]) # "no"}
             first == CHOOSE i \in decided : \A j \in decided : i <= j
             told == AssertCalled(calls, times, criteria)
  <1>1. told = IF times # Nothing /\ Len(calls) # times THEN "AssertionError"
               ELSE IF times # Nothing /\ criteria = NoCriteria THEN "passes"
               ELSE IF decided = {} THEN "AssertionError"
               ELSE IF Answer(criteria, calls[first]) = "yes" THEN "passes"
               ELSE "UnicodeDecodeError"
    BY DEF AssertCalled
  <1>2. ASSUME decided # {}
        PROVE  first \in decided /\ \A j \in decided : first <= j
    <2>1. decided \subseteq Nat
      OBVIOUS
    <2>2. \E i \in decided : \A j \in decided : i <= j
      BY <1>2, <2>1, LeastOfSome
    <2> HIDE DEF decided
    <2>3. QED
      BY <2>2
  <1> HIDE DEF first, told
  <1>3. CASE times # Nothing /\ (Len(calls) # times \/ criteria = NoCriteria)
    BY <1>1, <1>3 DEF told
  <1>4. CASE ~ (times # Nothing /\ (Len(calls) # times \/ criteria = NoCriteria)) /\ decided = {}
    BY <1>1, <1>4 DEF told
  <1>5. CASE ~ (times # Nothing /\ (Len(calls) # times \/ criteria = NoCriteria)) /\ decided # {}
    <2>1. /\ first \in 1..Len(calls) /\ Answer(criteria, calls[first]) \in {"yes", "raises"}
          /\ \A j \in 1..Len(calls) : Answer(criteria, calls[j]) = "yes" => first <= j
      BY <1>2, <1>5, AnswerFacts
    <2>2. CASE Answer(criteria, calls[first]) = "yes"
      BY <1>1, <1>5, <2>1, <2>2 DEF told
    <2>3. CASE Answer(criteria, calls[first]) = "raises"
      <3>1. told = "UnicodeDecodeError"
        BY <1>1, <1>5, <2>3
      <3>2. \A j \in 1..Len(calls) : Answer(criteria, calls[j]) = "yes" => first < j
        <4>1. \A j \in 1..Len(calls) : Answer(criteria, calls[j]) = "yes" => j # first
          BY <2>3
        <4>2. QED
          BY <2>1, <4>1
      <3>3. QED
        BY <2>1, <2>3, <3>1, <3>2 DEF told
    <2>4. QED
      BY <2>1, <2>2, <2>3
  <1>6. QED
    BY <1>3, <1>4, <1>5

\* The calls of a handler, asked through the places of its requests in the history.
LEMMA AssertionsLemma ==
    ASSUME IInv, MapInv
    PROVE  AssertionsTellTheHistory
  <1> SUFFICES ASSUME NEW h \in Handler
               PROVE  /\ AssertNotCalled(CallsOf(h)) = "passes" <=> Received(h) = {}
                      /\ LastCall(CallsOf(h)) =
                             {Content[history[i]] :
                                 i \in {j \in Received(h) : \A k \in Received(h) : k <= j}}
                      /\ \A criteria \in Criteria :
                             (\A i \in {j \in Received(h) :
                                           /\ criteria.json # Nothing
                                           /\ Json[Content[history[j]].body] = NotText} :
                                  \E j \in Satisfying(h, criteria) : j < i) =>
                                 \A times \in Times :
                                     AssertCalled(CallsOf(h), times, criteria) =
                                         Documented(Received(h), Satisfying(h, criteria),
                                                    times, criteria)
    BY DEF AssertionsTellTheHistory
  <1> DEFINE mine == history_map[h]
             n == Len(mine)
             calls == [i \in DOMAIN mine |-> Content[mine[i]]]
             received == {i \in DOMAIN history : Chosen(history[i]) = h}
  <1>0. received = Received(h) /\ calls = CallsOf(h)
    BY DEF Received, CallsOf
  <1>1. /\ mine \in Seq(Request) /\ history \in Seq(Request)
        /\ Selects(mine, history, OfHandler(h, history))
    BY DEF MapInv, IInv
  <1>2. received = Places(history, OfHandler(h, history))
    <2>1. DOMAIN history = 1..Len(history)
      BY <1>1
    <2>2. QED
      BY <2>1 DEF Places, OfHandler, ToSet
  <1> HIDE DEF mine, received, calls
  <1>3. PICK g \in [1..n -> 1..Len(history)] :
            /\ \A i, j \in 1..n : i < j => g[i] < g[j]
            /\ {g[i] : i \in 1..n} = received
            /\ \A i \in 1..n : mine[i] = history[g[i]]
    <2> DEFINE S == OfHandler(h, history)
    <2>1. mine \in Seq(Request) /\ history \in Seq(Request) /\ Selects(mine, history, S)
      BY <1>1
    <2> HIDE DEF S
    <2>2. \E g \in [1..Len(mine) -> 1..Len(history)] :
              /\ \A i, j \in 1..Len(mine) : i < j => g[i] < g[j]
              /\ {g[i] : i \in 1..Len(mine)} = Places(history, S)
              /\ \A i \in 1..Len(mine) : mine[i] = history[g[i]]
      BY <2>1, SelectsOrder
    <2>3. QED
      BY <1>2, <2>2 DEF S
  <1>4. n = Cardinality(received) /\ n \in Nat
    BY <1>1, <1>2, SelectsDef
  <1>5. /\ DOMAIN calls = 1..n /\ calls \in Seq({Content[r] : r \in Request}) /\ Len(calls) = n
        /\ \A i \in 1..n : calls[i] = Content[history[g[i]]]
    <2>1. DOMAIN mine = 1..n
      BY <1>1
    <2>2. calls = [i \in 1..n |-> Content[mine[i]]] /\ \A i \in 1..n : mine[i] \in Request
      BY <1>1, <2>1 DEF calls
    <2> HIDE DEF n
    <2> DEFINE V == {Content[r] : r \in Request}
    <2>3. calls \in [1..n -> V]
      BY <2>2
    <2> HIDE DEF V
    <2>4. calls \in Seq(V)
      BY <1>4, <2>3, SeqDef
    <2>5. DOMAIN calls = 1..n /\ DOMAIN calls = 1..Len(calls) /\ Len(calls) \in Nat
      BY <2>3, <2>4
    <2>6. Len(calls) = n
      BY <1>4, <2>5
    <2>7. QED
      BY <1>3, <2>2, <2>4, <2>5, <2>6 DEF V
  <1>6. \A i \in 1..n : g[i] \in received /\ i \in Int /\ g[i] \in Int
    BY <1>3, <1>4
  <1> HIDE DEF n
  <1>7. AssertNotCalled(calls) = "passes" <=> received = {}
    <2>1. calls = <<>> <=> n = 0
      BY <1>4, <1>5
    <2>2. n = 0 <=> received = {}
      <3>1. n = 0 => 1..n = {}
        OBVIOUS
      <3>2. n # 0 => 1 \in 1..n
        BY <1>4
      <3>3. QED
        BY <1>3, <3>1, <3>2
    <2>3. QED
      BY <2>1, <2>2 DEF AssertNotCalled
  <1>8. LastCall(calls) =
            {Content[history[i]] : i \in {j \in received : \A k \in received : k <= j}}
    <2> DEFINE latest == {j \in received : \A k \in received : k <= j}
    <2>1. LastCall(calls) = {calls[i] : i \in {n} \cap 1..n}
      BY <1>5 DEF LastCall
    <2>2. CASE n = 0
      BY <1>3, <1>4, <2>1, <2>2
    <2>3. CASE n # 0
      <3>1. n \in 1..n
        BY <1>4, <2>3
      <3>2. latest = {g[n]}
        <4>1. \A i \in 1..n : g[i] <= g[n] /\ (g[i] = g[n] => i = n)
          BY <1>3, <1>4, <1>6, <3>1
        <4>2. \A k \in received : k <= g[n] /\ k \in Int
          BY <1>3, <1>6, <4>1
        <4>3. \A j \in latest : j = g[n]
          BY <1>6, <3>1, <4>2
        <4>4. g[n] \in latest
          BY <1>6, <3>1, <4>2
        <4>5. QED
          BY <4>3, <4>4
      <3> HIDE DEF latest
      <3>3. QED
        BY <1>5, <2>1, <3>1, <3>2 DEF latest
    <2>4. QED
      BY <2>2, <2>3
  <1>9. ASSUME NEW criteria \in Criteria, NEW times \in Times,
               \A i \in {j \in received : /\ criteria.json # Nothing
                                          /\ Json[Content[history[j]].body] = NotText} :
                   \E j \in Satisfying(h, criteria) : j < i
        PROVE  AssertCalled(calls, times, criteria) =
                   Documented(received, Satisfying(h, criteria), times, criteria)
    <2> DEFINE matching == {i \in received : Satisfies(history[i], criteria)}
               told == AssertCalled(calls, times, criteria)
               yes == {i \in 1..n : Answer(criteria, calls[i]) = "yes"}
    <2>0. matching = Satisfying(h, criteria)
      BY <1>0 DEF Satisfying
    <2> SUFFICES told = Documented(received, matching, times, criteria)
      BY <2>0
    <2>1. times \in Nat \cup {Nothing}
      BY ServerAssumption
    <2>2. \A i \in 1..n : Answer(criteria, calls[i]) = "yes" <=> Satisfies(history[g[i]], criteria)
      BY <1>5, AnswerFacts DEF Satisfies
    <2>3. matching = {g[i] : i \in yes}
      BY <1>3, <1>6, <2>2
    <2>4. \/ /\ told = "passes"
             /\ times # Nothing => n = times
             /\ yes # {} \/ (criteria = NoCriteria /\ times # Nothing)
          \/ /\ told = "AssertionError"
             /\ \/ yes = {} /\ ~ (criteria = NoCriteria /\ times # Nothing)
                \/ times # Nothing /\ n # times
          \/ /\ told = "UnicodeDecodeError"
             /\ \E i \in 1..n : /\ Answer(criteria, calls[i]) = "raises"
                                /\ \A j \in yes : i < j
      <3>1. Len(calls) \in Nat /\ DOMAIN calls = 1..Len(calls)
        BY <1>4, <1>5
      <3> DEFINE hits == {k \in 1..Len(calls) : Answer(criteria, calls[k]) = "yes"}
      <3>2. \/ /\ told = "passes"
               /\ times # Nothing => Len(calls) = times
               /\ hits # {} \/ (criteria = NoCriteria /\ times # Nothing)
            \/ /\ told = "AssertionError"
               /\ \/ hits = {} /\ ~ (criteria = NoCriteria /\ times # Nothing)
                  \/ times # Nothing /\ Len(calls) # times
            \/ /\ told = "UnicodeDecodeError"
               /\ \E i \in 1..Len(calls) : /\ Answer(criteria, calls[i]) = "raises"
                                            /\ \A j \in hits : i < j
        BY <3>1, <2>1, CalledFacts
      <3>3. QED
        BY <1>5, <3>2
    <2>5. ASSUME criteria = NoCriteria PROVE yes = 1..n
      <3>1. \A i \in 1..n : Satisfies(history[g[i]], criteria)
        BY <2>5 DEF Satisfies, HasAll, NoCriteria
      <3>2. QED
        BY <2>2, <3>1
    <2>6. ASSUME NEW i \in 1..n, Answer(criteria, calls[i]) = "raises", \A j \in yes : i < j
          PROVE  FALSE
      <3>1. criteria.json # Nothing /\ Json[Content[history[g[i]]].body] = NotText
        BY <1>5, <2>6, AnswerFacts
      <3>2. PICK k \in matching : k < g[i]
        BY <1>6, <1>9, <2>0, <3>1
      <3>3. PICK j \in yes : k = g[j]
        BY <2>3
      <3>4. j \in 1..n /\ g[i] < g[j]
        BY <1>3, <2>6
      <3>5. QED
        BY <1>6, <3>2, <3>3, <3>4
    <2> HIDE DEF matching, told, yes
    <2>7. yes # {} <=> matching # {}
      BY <2>3
    <2>8. ASSUME criteria = NoCriteria, times # Nothing, n = times, matching = {}
          PROVE  times = 0
      <3>1. 1..n = {}
        BY <2>5, <2>7, <2>8
      <3>2. n # 0 => n \in 1..n
        BY <1>4
      <3>3. QED
        BY <2>8, <3>1, <3>2
    <2>9. CASE /\ told = "passes"
               /\ times # Nothing => n = times
               /\ yes # {} \/ (criteria = NoCriteria /\ times # Nothing)
      BY <1>4, <2>7, <2>8, <2>9 DEF Documented
    <2>10. CASE /\ told = "AssertionError"
                /\ \/ yes = {} /\ ~ (criteria = NoCriteria /\ times # Nothing)
                   \/ times # Nothing /\ n # times
      <3>1. times = 0 => times # Nothing
        BY ServerAssumption, <2>1
      <3>2. QED
        BY <1>4, <2>7, <2>10, <3>1 DEF Documented
    <2>11. CASE told = "UnicodeDecodeError"
                /\ \E i \in 1..n : Answer(criteria, calls[i]) = "raises" /\ \A j \in yes : i < j
      BY <2>6, <2>11
    <2>12. QED
      BY <2>4, <2>9, <2>10, <2>11
  <1>10. QED
    <2>1. ASSUME NEW criteria \in Criteria,
                 \A i \in {j \in Received(h) : /\ criteria.json # Nothing
                                               /\ Json[Content[history[j]].body] = NotText} :
                     \E j \in Satisfying(h, criteria) : j < i
          PROVE  \A times \in Times :
                     AssertCalled(CallsOf(h), times, criteria) =
                         Documented(Received(h), Satisfying(h, criteria), times, criteria)
      BY <1>0, <1>9, <2>1
    <2>2. QED
      BY <1>0, <1>7, <1>8, <2>1

\* What the assertions of a test say is true of the requests received, in the order received.
THEOREM AssertionsTellTruth == Spec => []AssertionsTellTheHistory
  BY AssertionsLemma, Invariance, MapInvariance, PTL

=============================================================================
