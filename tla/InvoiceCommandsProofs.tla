----------------------- MODULE InvoiceCommandsProofs -----------------------
(***************************************************************************)
(* Proofs about InvoiceCommands, for any number of workers, invoices, keys *)
(* and commands.                                                           *)
(***************************************************************************)
EXTENDS InvoiceCommands, FiniteSetTheorems, TLAPS

USE DEF vars, dbVars, outVars, wrkVars

\* The transition table answers with a state or with a rejection.
LEMMA NextStateRange ==
    ASSUME NEW s, NEW e, NEW p \in Nat, NEW t \in Nat
    PROVE  NextState(s, e, p, t) \in States \union Rejections
  BY DEF NextState, PayFromOpen, ClassifyPayment, States, Rejections, Payable

\* The gates accept the transitions of CommandEdge only.
LEMMA TargetEdges ==
    ASSUME NEW s \in Row, NEW a \in Nat
    PROVE  /\ IssueTarget(s) \in States => CommandEdge("issue", s.state, IssueTarget(s))
           /\ SendTarget(s) \in States => CommandEdge("send", s.state, SendTarget(s))
           /\ ViewTarget(s) \in States => CommandEdge("view", s.state, ViewTarget(s))
           /\ PayTarget(s, a) \in States => CommandEdge("pay", s.state, PayTarget(s, a))
           /\ VoidTarget(s) \in States => CommandEdge("void", s.state, VoidTarget(s))
  BY DEF IssueTarget, SendTarget, ViewTarget, PayTarget, VoidTarget, CommandEdge,
         NextState, PayFromOpen, ClassifyPayment, States, Payable, Row
-----------------------------------------------------------------------------
(* Types and the steps of a worker *)

\* Every variable has its type and every worker is where its command may be.
Inv1 == TypeOK /\ WorkersOK

\* Ending a command, for whatever reason, keeps a worker's variables in order.
LEMMA FinishInv ==
    ASSUME Inv1, NEW w \in Workers, Finish(w)
    PROVE  /\ pc' \in [Workers -> PcVal]
           /\ req' \in [Workers -> Request]
           /\ from' \in [Workers -> States \union {"Absent"}]
           /\ next' \in [Workers -> Row]
           /\ WorkersOK'
  <1>1. NoRequest \in Request /\ NoRow \in Row
    BY DEF NoRequest, Request, NoRow, Row, NoPdf, Pdf, NoNumber, NumberVal, KeyOpt
  <1>2. /\ pc' \in [Workers -> PcVal]
        /\ req' \in [Workers -> Request]
        /\ from' \in [Workers -> States \union {"Absent"}]
        /\ next' \in [Workers -> Row]
    BY <1>1 DEF Inv1, TypeOK, Finish, PcVal
  <1>3. ASSUME NEW v \in Workers PROVE WorkerOK(v)'
    <2>1. CASE v = w
      BY <2>1 DEF Inv1, TypeOK, Finish, WorkerOK, Prepared, NoRequest
    <2>2. CASE v # w
      BY <2>2 DEF Inv1, TypeOK, WorkersOK, Finish, WorkerOK, Prepared
    <2> QED BY <2>1, <2>2
  <1> QED BY <1>2, <1>3 DEF WorkersOK

\* A command that starts at its look-up or at its load.
LEMMA BeginInv ==
    ASSUME Inv1, NEW w \in Workers, NEW r \in Request, NEW step,
           r.inv \in Invoices, r.cmd # "none", r.dest # "none" => r.cmd = "send",
           r.cmd = "pay" => r.amount > 0,
           \/ step = "lookup" /\ r.cmd \in {"draft", "send"}
           \/ step = "load" /\ r.cmd # "draft",
           Begin(w, r, step)
    PROVE  Inv1'
  <1>1. TypeOK'
    BY ConstantsAssumption DEF Inv1, TypeOK, Begin, PcVal
  <1>2. ASSUME NEW v \in Workers PROVE WorkerOK(v)'
    <2>1. CASE v = w
      BY <2>1 DEF Inv1, TypeOK, WorkersOK, Begin, WorkerOK, Prepared
    <2>2. CASE v # w
      BY <2>2 DEF Inv1, TypeOK, WorkersOK, Begin, WorkerOK, Prepared
    <2> QED BY <2>1, <2>2
  <1> QED BY <1>1, <1>2 DEF Inv1, WorkersOK

\* Starting any of the six commands.
LEMMA StartInv == ASSUME Inv1, NEW w \in Workers, Start(w) PROVE Inv1'
  <1> USE ConstantsAssumption DEF Cmd, Request, KeyOpt
  <1>1. CASE StartDraft(w)
    BY <1>1, BeginInv DEF StartDraft
  <1>2. CASE StartIssue(w)
    BY <1>2, BeginInv DEF StartIssue
  <1>3. CASE StartSend(w)
    BY <1>3, BeginInv DEF StartSend
  <1>4. CASE StartView(w)
    BY <1>4, BeginInv DEF StartView
  <1>5. CASE StartPay(w)
    BY <1>5, BeginInv DEF StartPay
  <1>6. CASE StartVoid(w)
    BY <1>6, BeginInv DEF StartVoid
  <1> QED BY <1>1, <1>2, <1>3, <1>4, <1>5, <1>6 DEF Start

\* Taking the snapshot and passing the gate.
LEMMA LoadInv ==
    ASSUME Inv1, NEW w \in Workers, NEW cmd, NEW target, NEW updated, NEW step,
           Load(w, cmd, target, updated, step),
           \/ step = "count" /\ cmd = "issue"
           \/ step = "sink" /\ cmd = "send"
           \/ step = "commit",
           pc[w] = "load" /\ row[req[w].inv].state # "Absent" /\ target \in States =>
              /\ updated \in Row
              /\ updated.state = target
              /\ CommandEdge(cmd, row[req[w].inv].state, target)
    PROVE  Inv1'
  <1>1. UNCHANGED <<dbVars, outVars, clock, started>> BY DEF Load
  <1>2. CASE Finish(w)
    BY <1>1, <1>2, FinishInv DEF Inv1, TypeOK
  <1>3. CASE ~Finish(w)
    <2>1. /\ pc[w] = "load" /\ req[w].cmd = cmd
          /\ row[req[w].inv].state # "Absent" /\ target \in States
          /\ pc' = [pc EXCEPT ![w] = step]
          /\ from' = [from EXCEPT ![w] = row[req[w].inv].state]
          /\ next' = [next EXCEPT ![w] = updated]
          /\ req' = req
      BY <1>3 DEF Load
    <2>2. row[req[w].inv].state \in States
      BY <2>1 DEF Inv1, TypeOK, WorkersOK, WorkerOK, Row
    <2>3. TypeOK'
      BY <1>1, <2>1, <2>2 DEF Inv1, TypeOK, PcVal
    <2>4. ASSUME NEW v \in Workers PROVE WorkerOK(v)'
      <3>1. CASE v = w
        BY <2>1, <2>2, <3>1 DEF Inv1, TypeOK, WorkersOK, WorkerOK, Prepared, PcVal
      <3>2. CASE v # w
        BY <2>1, <3>2 DEF Inv1, TypeOK, WorkersOK, WorkerOK, Prepared
      <3> QED BY <3>1, <3>2
    <2> QED BY <2>3, <2>4 DEF Inv1, WorkersOK
  <1> QED BY <1>2, <1>3

\* The look-ups and the snapshots.
LEMMA ReadInv == ASSUME Inv1, NEW w \in Workers, Read(w) PROVE Inv1'
  <1> DEFINE s == row[req[w].inv]
             a == req[w].amount
             new == [NoRow EXCEPT !.state = "Draft", !.total = a, !.key = req[w].key]
  <1>s. ASSUME pc[w] # "idle" PROVE s \in Row /\ a \in Nat
    BY <1>s DEF Inv1, TypeOK, WorkersOK, WorkerOK, Request
  <1>1. CASE DraftLookup(w) /\ Finish(w)
    BY <1>1, FinishInv DEF DraftLookup, Inv1, TypeOK
  <1>2. CASE DraftLookup(w) /\ ~Finish(w)
    <2>1. /\ pc[w] = "lookup" /\ req[w].cmd = "draft"
          /\ pc' = [pc EXCEPT ![w] = "commit"] /\ next' = [next EXCEPT ![w] = new]
          /\ UNCHANGED <<dbVars, outVars, clock, started, req, from>>
      BY <1>2 DEF DraftLookup
    <2>2. new \in Row /\ new.state = "Draft"
      BY <2>1, <1>s DEF Inv1, TypeOK, Request, NoRow, Row, NoPdf, Pdf, NoNumber,
                        NumberVal, States
    <2>3. TypeOK'
      BY <2>1, <2>2 DEF Inv1, TypeOK, PcVal
    <2>4. ASSUME NEW v \in Workers PROVE WorkerOK(v)'
      <3> HIDE DEF new
      <3>1. CASE v = w
        BY <2>1, <2>2, <3>1 DEF Inv1, TypeOK, WorkersOK, WorkerOK, Prepared, CommandEdge
      <3>2. CASE v # w
        BY <2>1, <3>2 DEF Inv1, TypeOK, WorkersOK, WorkerOK, Prepared
      <3> QED BY <3>1, <3>2
    <2> QED BY <2>3, <2>4 DEF Inv1, WorkersOK
  <1>3. CASE SendLookup(w) /\ Finish(w)
    BY <1>3, FinishInv DEF SendLookup, Inv1, TypeOK
  <1>4. CASE SendLookup(w) /\ ~Finish(w)
    <2>1. /\ pc[w] = "lookup" /\ req[w].cmd = "send"
          /\ \E step \in {"dispatch", "load"} : pc' = [pc EXCEPT ![w] = step]
          /\ UNCHANGED <<dbVars, outVars, clock, started, req, from, next>>
      BY <1>4 DEF SendLookup
    <2>2. TypeOK'
      BY <2>1 DEF Inv1, TypeOK, PcVal
    <2>3. ASSUME NEW v \in Workers PROVE WorkerOK(v)'
      BY <2>1 DEF Inv1, TypeOK, WorkersOK, WorkerOK, Prepared
    <2> QED BY <2>2, <2>3 DEF Inv1, WorkersOK
  <1>5. CASE IssueLoad(w)
    <2>1. pc[w] = "load" /\ IssueTarget(s) \in States =>
            /\ [s EXCEPT !.state = IssueTarget(s)] \in Row
            /\ [s EXCEPT !.state = IssueTarget(s)].state = IssueTarget(s)
      BY <1>s DEF Row
    <2> QED BY <1>5, <1>s, <2>1, LoadInv, TargetEdges DEF IssueLoad
  <1>6. CASE SendLoad(w)
    <2>1. pc[w] = "load" /\ SendTarget(s) \in States =>
            SendUpdated(s) \in Row /\ SendUpdated(s).state = SendTarget(s)
      BY <1>s DEF SendUpdated, Row
    <2> QED BY <1>6, <1>s, <2>1, LoadInv, TargetEdges DEF SendLoad
  <1>7. CASE ViewLoad(w)
    <2>1. pc[w] = "load" /\ ViewTarget(s) \in States =>
            ViewUpdated(s) \in Row /\ ViewUpdated(s).state = ViewTarget(s)
      BY <1>s DEF ViewUpdated, Row
    <2> QED BY <1>7, <1>s, <2>1, LoadInv, TargetEdges DEF ViewLoad
  <1>8. CASE PayLoad(w)
    <2>1. pc[w] = "load" /\ PayTarget(s, a) \in States =>
            PayUpdated(s, a) \in Row /\ PayUpdated(s, a).state = PayTarget(s, a)
      <3>1. pc[w] = "load" => s.paid + a \in Nat BY <1>s DEF Row
      <3>2. pc[w] = "load" => s.stamps \union {"paid"} \in SUBSET {"sent", "viewed", "paid", "voided"}
        BY <1>s DEF Row
      <3> QED BY <1>s, <3>1, <3>2 DEF PayUpdated, Row
    <2> QED BY <1>8, <1>s, <2>1, LoadInv, TargetEdges DEF PayLoad
  <1>9. CASE VoidLoad(w)
    <2>1. pc[w] = "load" /\ VoidTarget(s) \in States =>
            VoidUpdated(s) \in Row /\ VoidUpdated(s).state = VoidTarget(s)
      BY <1>s DEF VoidUpdated, Row
    <2> QED BY <1>9, <1>s, <2>1, LoadInv, TargetEdges DEF VoidLoad
  <1> QED BY <1>1, <1>2, <1>3, <1>4, <1>5, <1>6, <1>7, <1>8, <1>9 DEF Read

\* A row is counted a natural number of times, so a number can be allocated.
LEMMA NextNumberType ==
    ASSUME TypeOK, IsFiniteSet(Invoices) PROVE NextNumber \in NumberVal
  <1>1. YearOf[clock] \in Nat
    BY ConstantsAssumption DEF TypeOK
  <1>2. IsFiniteSet(IssuedIn(YearOf[clock]))
    BY FS_Subset DEF IssuedIn
  <1>3. CountIssued(YearOf[clock]) \in Nat
    BY <1>2, FS_CardinalityType DEF CountIssued
  <1> QED BY <1>1, <1>3 DEF NextNumber, NumberVal

\* Allocating the number and storing the document.
LEMMA IssueCountInv == ASSUME Inv1, NEW w \in Workers, IssueCount(w) PROVE Inv1'
  <1>1. NextNumber \in NumberVal
    BY NextNumberType, ConstantsAssumption DEF Inv1
  <1>2. PICK tax \in Taxes :
          LET i == req[w].inv
              total == next[w].total + tax
              pdf == [number |-> NextNumber, total |-> total]
          IN  /\ next' = [next EXCEPT ![w].number = NextNumber, ![w].total = total,
                            ![w].issuedAt = clock, ![w].pdf = IF BlobStore THEN pdf ELSE @]
              /\ blobs' = [blobs EXCEPT ![i] = IF BlobStore THEN @ \union {pdf} ELSE @]
    BY DEF IssueCount
  <1> DEFINE total == next[w].total + tax
             pdf == [number |-> NextNumber, total |-> total]
             new == [next[w] EXCEPT !.number = NextNumber, !.total = total,
                        !.issuedAt = clock, !.pdf = IF BlobStore THEN pdf ELSE @]
  <1>3. /\ pc[w] = "count" /\ pc' = [pc EXCEPT ![w] = "commit"]
        /\ UNCHANGED <<dbVars, announced, delivered, clock, started, req, from>>
    BY DEF IssueCount
  <1>4. total \in Nat /\ pdf \in Pdf /\ clock \in Nat
    BY <1>1, ConstantsAssumption DEF Inv1, TypeOK, Row, Pdf, Instants
  <1>5. next' = [next EXCEPT ![w] = new]
    BY <1>2
  <1>6. new \in Row /\ new.state = next[w].state
    BY ZenonT(40), <1>1, <1>4 DEF Inv1, TypeOK, Row
  <1>7. blobs' \in [Invoices -> SUBSET Pdf]
    BY <1>2, <1>4 DEF Inv1, TypeOK
  <1> HIDE DEF new, total, pdf
  <1>8. TypeOK'
    BY <1>3, <1>5, <1>6, <1>7 DEF Inv1, TypeOK, PcVal
  <1>9. ASSUME NEW v \in Workers PROVE WorkerOK(v)'
    BY <1>3, <1>5, <1>6 DEF Inv1, TypeOK, WorkersOK, WorkerOK, Prepared
  <1> QED BY <1>8, <1>9 DEF Inv1, WorkersOK

\* Writing to the sink.
LEMMA WriteSinkInv == ASSUME Inv1, NEW w \in Workers, WriteSink(w) PROVE Inv1'
  <1>1. req[w].inv \in Invoices /\ req[w].key \in KeyOpt
    BY DEF Inv1, TypeOK, WorkersOK, WorkerOK, WriteSink, Request
  <1>2. delivered' \in [Invoices -> [KeyOpt -> Nat]]
    BY <1>1 DEF Inv1, TypeOK, WriteSink
  <1>3. TypeOK'
    BY <1>2 DEF Inv1, TypeOK, WriteSink, PcVal
  <1>4. ASSUME NEW v \in Workers PROVE WorkerOK(v)'
    BY DEF Inv1, TypeOK, WorkersOK, WorkerOK, Prepared, WriteSink
  <1> QED BY <1>3, <1>4 DEF Inv1, WorkersOK

\* What a transaction that commits changes.
Committed(w) ==
    /\ pc[w] = "commit"
    /\ UniqueColumns(req[w].inv, next[w]) /\ SendKeyFree(req[w])
    /\ SaveInTx(w) /\ AppendHistory(w) /\ InsertSendKey(w)
    /\ receipts' = [receipts EXCEPT ![req[w].inv] =
                        IF req[w].cmd = "pay" THEN @ + req[w].amount ELSE @]
    /\ pc' = [pc EXCEPT ![w] = "publish"]
    /\ UNCHANGED <<outVars, clock, started, req, from, next>>

\* A transaction commits or ends the command without a trace.
LEMMA WriteCases ==
    ASSUME NEW w \in Workers, Write(w)
    PROVE  \/ Committed(w)
           \/ Finish(w) /\ UNCHANGED <<dbVars, outVars, clock, started>>
  BY DEF Write, DraftCommit, IssueCommit, SendCommit, ViewCommit, PayCommit, VoidCommit,
         Commit, Committed

\* The history row that a worker appends is well formed.
LEMMA NewHistoryRowType ==
    ASSUME Inv1, NEW w \in Workers, Prepared(w)
    PROVE  NewHistoryRow(w) \in HistoryRow
  <1>1. /\ req[w] \in Request /\ req[w].inv \in Invoices /\ req[w].cmd # "none"
        /\ CommandEdge(req[w].cmd, from[w], next[w].state)
    BY DEF Inv1, TypeOK, WorkersOK, WorkerOK, Prepared
  <1>2. from[w] \in States \union {"Absent"} /\ next[w].state \in States
    BY <1>1 DEF Inv1, TypeOK, CommandEdge, States
  <1> QED BY <1>1, <1>2 DEF NewHistoryRow, HistoryRow, Request

\* Committing.
LEMMA CommittedInv == ASSUME Inv1, NEW w \in Workers, Committed(w) PROVE Inv1'
  <1>1. NewHistoryRow(w) \in HistoryRow
    BY NewHistoryRowType DEF Committed, Prepared
  <1>2. req[w].inv \in Invoices /\ req[w] \in Request /\ next[w] \in Row
    BY DEF Inv1, TypeOK, WorkersOK, WorkerOK, Committed
  <1>3. row' \in [Invoices -> Row]
    BY <1>2 DEF Inv1, TypeOK, Committed, SaveInTx
  <1>4. history' \in Seq(HistoryRow)
    BY <1>1 DEF Inv1, TypeOK, Committed, AppendHistory
  <1>5. sendKeys' \subseteq Invoices \X Keys
    BY <1>2 DEF Inv1, TypeOK, Committed, InsertSendKey, Request, KeyOpt
  <1>6. receipts' \in [Invoices -> Nat]
    BY <1>2 DEF Inv1, TypeOK, Committed, Request
  <1>7. TypeOK'
    BY <1>3, <1>4, <1>5, <1>6 DEF Inv1, TypeOK, Committed, PcVal
  <1>8. ASSUME NEW v \in Workers PROVE WorkerOK(v)'
    BY DEF Inv1, TypeOK, WorkersOK, WorkerOK, Prepared, Committed
  <1> QED BY <1>7, <1>8 DEF Inv1, WorkersOK

\* Publishing and dispatching.
LEMMA PublishInv == ASSUME Inv1, NEW w \in Workers, Publish(w) PROVE Inv1'
  <1> DEFINE e == [inv |-> req[w].inv, from |-> from[w], to |-> next[w].state,
                   event |-> req[w].cmd]
  <1>1. NewHistoryRow(w) \in HistoryRow
    BY NewHistoryRowType DEF Publish, Prepared
  <1>2. e \in BusEvent
    BY <1>1 DEF NewHistoryRow, HistoryRow, BusEvent
  <1>3. announced' \subseteq BusEvent
    BY <1>2 DEF Publish, Inv1, TypeOK
  <1>4. CASE Finish(w)
    BY <1>3, <1>4, FinishInv DEF Publish, Inv1, TypeOK
  <1>5. CASE ~Finish(w)
    <2>1. /\ req[w].dest = "webhook" /\ pc[w] = "publish" /\ pc' = [pc EXCEPT ![w] = "dispatch"]
          /\ UNCHANGED <<dbVars, blobs, delivered, clock, started, req, from, next>>
      BY <1>5 DEF Publish
    <2>2. TypeOK'
      BY <1>3, <2>1 DEF Inv1, TypeOK, PcVal
    <2>3. ASSUME NEW v \in Workers PROVE WorkerOK(v)'
      BY <2>1 DEF Inv1, TypeOK, WorkersOK, WorkerOK, Prepared
    <2> QED BY <2>2, <2>3 DEF Inv1, WorkersOK
  <1> QED BY <1>4, <1>5

LEMMA DispatchInv == ASSUME Inv1, NEW w \in Workers, Dispatch(w) PROVE Inv1'
  <1>1. req[w].inv \in Invoices /\ req[w].key \in KeyOpt
    BY DEF Inv1, TypeOK, WorkersOK, WorkerOK, Dispatch, Request
  <1>2. delivered' \in [Invoices -> [KeyOpt -> Nat]]
    BY <1>1 DEF Inv1, TypeOK, Dispatch
  <1> QED BY <1>2, FinishInv DEF Inv1, TypeOK, Dispatch

\* Every step keeps the types and the workers in order.
LEMMA Inv1Step == ASSUME Inv1, [Next]_vars PROVE Inv1'
  <1>1. CASE UNCHANGED vars
    BY <1>1 DEF Inv1, TypeOK, WorkersOK, WorkerOK, Prepared
  <1>2. CASE Tick
    BY <1>2, ConstantsAssumption
       DEF Tick, Inv1, TypeOK, Instants, WorkersOK, WorkerOK, Prepared
  <1>3. ASSUME NEW w \in Workers, Start(w) PROVE Inv1'
    BY <1>3, StartInv
  <1>4. ASSUME NEW w \in Workers, Read(w) PROVE Inv1'
    BY <1>4, ReadInv
  <1>5. ASSUME NEW w \in Workers, Write(w) PROVE Inv1'
    <2>1. CASE Committed(w)
      BY <2>1, CommittedInv
    <2>2. CASE Finish(w) /\ UNCHANGED <<dbVars, outVars, clock, started>>
      BY <2>2, FinishInv DEF Inv1, TypeOK
    <2> QED BY <1>5, <2>1, <2>2, WriteCases
  <1>6. ASSUME NEW w \in Workers, Fail(w) PROVE Inv1'
    BY <1>6, FinishInv DEF Fail, Inv1, TypeOK
  <1>7. ASSUME NEW w \in Workers, IssueCount(w) PROVE Inv1'
    BY <1>7, IssueCountInv
  <1>8. ASSUME NEW w \in Workers, WriteSink(w) PROVE Inv1'
    BY <1>8, WriteSinkInv
  <1>9. ASSUME NEW w \in Workers, Publish(w) PROVE Inv1'
    BY <1>9, PublishInv
  <1>10. ASSUME NEW w \in Workers, Dispatch(w) PROVE Inv1'
    BY <1>10, DispatchInv
  <1> QED BY <1>1, <1>2, <1>3, <1>4, <1>5, <1>6, <1>7, <1>8, <1>9, <1>10 DEF Next

LEMMA Inv1Init == Init => Inv1
  <1> SUFFICES ASSUME Init PROVE Inv1 OBVIOUS
  <1>1. NoRequest \in Request /\ NoRow \in Row /\ NoRow.state = "Absent"
    BY DEF NoRequest, Request, NoRow, Row, NoPdf, Pdf, NoNumber, NumberVal, KeyOpt
  <1>2. TypeOK
    BY <1>1, ConstantsAssumption DEF Init, TypeOK, PcVal, Instants
  <1>3. WorkersOK
    BY DEF Init, WorkersOK, WorkerOK, Prepared, NoRequest
  <1> QED BY <1>2, <1>3 DEF Inv1

\* Types hold and every worker is where its command may be, always.
THEOREM TypeCorrect == Spec => [](TypeOK /\ WorkersOK)
  BY Inv1Init, Inv1Step, PTL DEF Spec, Inv1
-----------------------------------------------------------------------------
(* The shape of a step: either one transaction commits and no worker moves  *)
(* but its own, or the tables stay and each worker makes one local step.    *)

\* The worker's command stays as it is.
Kept(v) == req'[v] = req[v] /\ from'[v] = from[v] /\ next'[v] = next[v]

\* The worker takes a snapshot of an existing row and passes the gate.
Snapshot(v) ==
    LET s == row[req[v].inv]
        a == req[v].amount
    IN  /\ pc[v] = "load" /\ s.state # "Absent"
        /\ req'[v] = req[v] /\ from'[v] = s.state
        /\ \/ /\ req[v].cmd = "issue" /\ pc'[v] = "count" /\ IssueTarget(s) \in States
              /\ next'[v] = [s EXCEPT !.state = IssueTarget(s)]
           \/ /\ req[v].cmd = "send" /\ pc'[v] = IF req[v].dest = "local" THEN "sink" ELSE "commit"
              /\ SendTarget(s) \in States /\ next'[v] = SendUpdated(s)
           \/ /\ req[v].cmd = "view" /\ pc'[v] = "commit" /\ ViewTarget(s) \in States
              /\ next'[v] = ViewUpdated(s)
           \/ /\ req[v].cmd = "pay" /\ pc'[v] = "commit" /\ PayTarget(s, a) \in States
              /\ next'[v] = PayUpdated(s, a)
           \/ /\ req[v].cmd = "void" /\ pc'[v] = "commit" /\ VoidTarget(s) \in States
              /\ next'[v] = VoidUpdated(s)

\* The worker builds a draft.
Drafting(v) ==
    /\ pc[v] = "lookup" /\ req[v].cmd = "draft" /\ pc'[v] = "commit"
    /\ req'[v] = req[v] /\ from'[v] = from[v]
    /\ next'[v] = [NoRow EXCEPT !.state = "Draft", !.total = req[v].amount, !.key = req[v].key]

\* The worker allocates a number and stores the document.
Counting(v) ==
    /\ pc[v] = "count" /\ pc'[v] = "commit" /\ req'[v] = req[v] /\ from'[v] = from[v]
    /\ \E tax \in Taxes :
         LET pdf == [number |-> NextNumber, total |-> next[v].total + tax]
         IN  /\ next'[v] = [next[v] EXCEPT !.number = NextNumber, !.total = next[v].total + tax,
                              !.issuedAt = clock, !.pdf = IF BlobStore THEN pdf ELSE @]
             /\ BlobStore => pdf \in blobs'[req[v].inv]

\* The worker has written to the sink.
Writing(v) ==
    /\ pc[v] = "sink" /\ pc'[v] = "commit" /\ Kept(v)
    /\ delivered'[req[v].inv][req[v].key] > 0

\* One of these, or the worker has nothing prepared after the step.
LocalStep(v) ==
    \/ pc'[v] = pc[v] /\ Kept(v)
    \/ pc'[v] \in {"idle", "lookup", "load", "dispatch"}
    \/ Snapshot(v) \/ Drafting(v) \/ Counting(v) \/ Writing(v)

\* A worker other than v is not touched.
Others(w) == \A v \in Workers \ {w} : pc'[v] = pc[v] /\ Kept(v)

LEMMA FinishLocal ==
    ASSUME Inv1, NEW w \in Workers, Finish(w)
    PROVE  \A v \in Workers : LocalStep(v)
  BY DEF Finish, Inv1, TypeOK, LocalStep, Kept

LEMMA LoadLocal ==
    ASSUME Inv1, NEW w \in Workers, NEW cmd, NEW target, NEW updated, NEW step,
           Load(w, cmd, target, updated, step)
    PROVE  \/ Finish(w)
           \/ /\ pc[w] = "load" /\ req[w].cmd = cmd /\ row[req[w].inv].state # "Absent"
              /\ target \in States /\ pc'[w] = step /\ req'[w] = req[w]
              /\ from'[w] = row[req[w].inv].state /\ next'[w] = updated
              /\ Others(w)
  BY DEF Load, Inv1, TypeOK, Others, Kept

LEMMA ReadLocal ==
    ASSUME Inv1, NEW w \in Workers, Read(w)
    PROVE  (\A v \in Workers : LocalStep(v)) /\ UNCHANGED <<dbVars, outVars, clock, started>>
  <1>0. UNCHANGED <<dbVars, outVars, clock, started>>
    BY DEF Read, DraftLookup, SendLookup, IssueLoad, SendLoad, ViewLoad, PayLoad, VoidLoad, Load
  <1>1. CASE Finish(w)
    BY <1>0, <1>1, FinishLocal
  <1>2. CASE ~Finish(w)
    <2>1. CASE DraftLookup(w)
      BY ZenonT(40), <1>0, <1>2, <2>1 DEF DraftLookup, Inv1, TypeOK, LocalStep, Kept, Drafting
    <2>2. CASE SendLookup(w)
      BY <1>0, <1>2, <2>2 DEF SendLookup, Inv1, TypeOK, LocalStep, Kept
    <2>3. CASE IssueLoad(w)
      BY <1>0, <1>2, <2>3, LoadLocal DEF IssueLoad, LocalStep, Snapshot, Others
    <2>4. CASE SendLoad(w)
      BY <1>0, <1>2, <2>4, LoadLocal DEF SendLoad, LocalStep, Snapshot, Others
    <2>5. CASE ViewLoad(w)
      BY <1>0, <1>2, <2>5, LoadLocal DEF ViewLoad, LocalStep, Snapshot, Others
    <2>6. CASE PayLoad(w)
      BY <1>0, <1>2, <2>6, LoadLocal DEF PayLoad, LocalStep, Snapshot, Others
    <2>7. CASE VoidLoad(w)
      BY <1>0, <1>2, <2>7, LoadLocal DEF VoidLoad, LocalStep, Snapshot, Others
    <2> QED BY <2>1, <2>2, <2>3, <2>4, <2>5, <2>6, <2>7 DEF Read
  <1> QED BY <1>1, <1>2

LEMMA IssueCountLocal ==
    ASSUME Inv1, NEW w \in Workers, IssueCount(w) PROVE \A v \in Workers : LocalStep(v)
  <1>1. req[w].inv \in Invoices /\ pc[w] = "count"
    BY DEF IssueCount, Inv1, WorkersOK, WorkerOK
  <1>2. Counting(w)
    <2>1. PICK tax \in Taxes :
            LET pdf == [number |-> NextNumber, total |-> next[w].total + tax]
            IN  /\ next' = [next EXCEPT ![w].number = NextNumber,
                              ![w].total = next[w].total + tax, ![w].issuedAt = clock,
                              ![w].pdf = IF BlobStore THEN pdf ELSE @]
                /\ blobs' = [blobs EXCEPT ![req[w].inv] =
                                IF BlobStore THEN @ \union {pdf} ELSE @]
      BY DEF IssueCount
    <2> DEFINE pdf == [number |-> NextNumber, total |-> next[w].total + tax]
    <2>2. next'[w] = [next[w] EXCEPT !.number = NextNumber, !.total = next[w].total + tax,
                         !.issuedAt = clock, !.pdf = IF BlobStore THEN pdf ELSE @]
      BY <2>1 DEF Inv1, TypeOK
    <2>3. BlobStore => pdf \in blobs'[req[w].inv]
      BY <1>1, <2>1 DEF Inv1, TypeOK
    <2>4. pc'[w] = "commit" /\ req'[w] = req[w] /\ from'[w] = from[w]
      BY <1>1 DEF IssueCount, Inv1, TypeOK
    <2> QED BY <1>1, <2>2, <2>3, <2>4 DEF Counting
  <1>3. Others(w)
    BY DEF IssueCount, Others, Kept, Inv1, TypeOK
  <1> QED BY <1>2, <1>3 DEF LocalStep, Others

LEMMA WriteSinkLocal ==
    ASSUME Inv1, NEW w \in Workers, WriteSink(w) PROVE \A v \in Workers : LocalStep(v)
  <1>1. req[w].inv \in Invoices /\ req[w].key \in KeyOpt
    BY DEF WriteSink, Inv1, TypeOK, WorkersOK, WorkerOK, Request
  <1>2. Writing(w)
    BY <1>1 DEF WriteSink, Writing, Kept, Inv1, TypeOK
  <1>3. Others(w)
    BY DEF WriteSink, Others, Kept, Inv1, TypeOK
  <1> QED BY <1>2, <1>3 DEF LocalStep, Others

\* Blobs and deliveries only accumulate.
Accumulate ==
    /\ \A i \in Invoices : blobs[i] \subseteq blobs'[i]
    /\ \A i \in Invoices, k \in KeyOpt : delivered[i][k] <= delivered'[i][k]

LEMMA StepCases ==
    ASSUME Inv1, [Next]_vars
    PROVE  /\ \/ \E w \in Workers : Committed(w) /\ Others(w)
              \/ UNCHANGED dbVars /\ \A v \in Workers : LocalStep(v)
           /\ Accumulate
  <1>1. CASE UNCHANGED vars \/ Tick
    BY <1>1 DEF Tick, LocalStep, Kept, Accumulate, Inv1, TypeOK
  <1>2. ASSUME NEW w \in Workers, Start(w)
        PROVE  UNCHANGED <<dbVars, outVars>> /\ \A v \in Workers : LocalStep(v)
    BY <1>2 DEF Start, StartDraft, StartIssue, StartSend, StartView, StartPay, StartVoid,
                Begin, LocalStep, Kept, Inv1, TypeOK
  <1>3. ASSUME NEW w \in Workers, Read(w)
        PROVE  UNCHANGED <<dbVars, outVars>> /\ \A v \in Workers : LocalStep(v)
    BY <1>3, ReadLocal
  <1>4. ASSUME NEW w \in Workers, Write(w)
        PROVE  /\ UNCHANGED outVars
               /\ \/ Committed(w) /\ Others(w)
                  \/ UNCHANGED dbVars /\ \A v \in Workers : LocalStep(v)
    <2>1. CASE Committed(w)
      BY <2>1 DEF Committed, Others, Kept, Inv1, TypeOK
    <2>2. CASE Finish(w) /\ UNCHANGED <<dbVars, outVars, clock, started>>
      BY <2>2, FinishLocal
    <2> QED BY <1>4, <2>1, <2>2, WriteCases
  <1>5. ASSUME NEW w \in Workers, Fail(w)
        PROVE  UNCHANGED <<dbVars, outVars>> /\ \A v \in Workers : LocalStep(v)
    BY <1>5, FinishLocal DEF Fail
  <1>6. ASSUME NEW w \in Workers, IssueCount(w)
        PROVE  UNCHANGED dbVars /\ Accumulate /\ \A v \in Workers : LocalStep(v)
    <2>1. Accumulate
      BY <1>6 DEF IssueCount, Accumulate, Inv1, TypeOK
    <2> QED BY <1>6, <2>1, IssueCountLocal DEF IssueCount
  <1>7. ASSUME NEW w \in Workers, WriteSink(w)
        PROVE  UNCHANGED dbVars /\ Accumulate /\ \A v \in Workers : LocalStep(v)
    <2>1. Accumulate
      BY <1>7 DEF WriteSink, Accumulate, Inv1, TypeOK
    <2> QED BY <1>7, <2>1, WriteSinkLocal DEF WriteSink
  <1>8. ASSUME NEW w \in Workers, Publish(w)
        PROVE  UNCHANGED <<dbVars, blobs, delivered>> /\ \A v \in Workers : LocalStep(v)
    <2>1. CASE Finish(w)
      BY <1>8, <2>1, FinishLocal DEF Publish
    <2>2. CASE ~Finish(w)
      BY <1>8, <2>2 DEF Publish, LocalStep, Kept, Inv1, TypeOK
    <2> QED BY <2>1, <2>2
  <1>9. ASSUME NEW w \in Workers, Dispatch(w)
        PROVE  UNCHANGED dbVars /\ Accumulate /\ \A v \in Workers : LocalStep(v)
    <2>1. Accumulate
      BY <1>9 DEF Dispatch, Accumulate, Inv1, TypeOK
    <2> QED BY <1>9, <2>1, FinishLocal DEF Dispatch
  <1>10. ASSUME UNCHANGED <<blobs, delivered>> PROVE Accumulate
    BY <1>10 DEF Accumulate, Inv1, TypeOK
  <1> QED
    BY <1>1, <1>2, <1>3, <1>4, <1>5, <1>6, <1>7, <1>8, <1>9, <1>10 DEF Next
-----------------------------------------------------------------------------
(* The safety properties that hold however many commands run at once, on the *)
(* shape of a step (StepCases).                                              *)

\* The rows that the commands build from a coherent snapshot are coherent.
LEMMA UpdatedCoherent ==
    ASSUME NEW s \in Row, Coherent(s), s.state # "Absent", NEW a \in Nat, a > 0
    PROVE  /\ IssueTarget(s) \in States =>
                 LET u == [s EXCEPT !.state = IssueTarget(s)]
                 IN  Coherent([u EXCEPT !.state = "Draft"])
           /\ SendTarget(s) \in States => Coherent(SendUpdated(s))
           /\ ViewTarget(s) \in States => Coherent(ViewUpdated(s))
           /\ PayTarget(s, a) \in States => Coherent(PayUpdated(s, a))
           /\ VoidTarget(s) \in States => Coherent(VoidUpdated(s))
  <1> USE DEF Row, Coherent, NextState, States, Payable
  <1>1. IssueTarget(s) \in States =>
           LET u == [s EXCEPT !.state = IssueTarget(s)]
           IN  Coherent([u EXCEPT !.state = "Draft"])
    BY DEF IssueTarget
  <1>2. SendTarget(s) \in States => Coherent(SendUpdated(s))
    BY DEF SendTarget, SendUpdated
  <1>3. ViewTarget(s) \in States => Coherent(ViewUpdated(s))
    BY DEF ViewTarget, ViewUpdated
  <1>4. PayTarget(s, a) \in States => Coherent(PayUpdated(s, a))
    BY DEF PayTarget, PayUpdated, PayFromOpen, ClassifyPayment
  <1>5. VoidTarget(s) \in States => Coherent(VoidUpdated(s))
    BY DEF VoidTarget, VoidUpdated
  <1> QED BY <1>1, <1>2, <1>3, <1>4, <1>5

\* Every row, stored or about to be, is coherent.
Inv2 == RowCoherent /\ PendingCoherent

LEMMA Inv2Init == Init => Inv2
  <1>1. Coherent(NoRow)
    BY DEF Coherent, NoRow, NoPdf, NoNumber
  <1> QED BY <1>1 DEF Init, Inv2, RowCoherent, PendingCoherent

\* A local step leaves its worker with a coherent row to write.
LEMMA LocalCoherent ==
    ASSUME Inv1, Inv2, NEW v \in Workers, LocalStep(v)
    PROVE  /\ pc'[v] = "count" => Coherent([next'[v] EXCEPT !.state = "Draft"])
           /\ pc'[v] \in {"sink", "commit"} => Coherent(next'[v])
  <1>1. CASE pc'[v] = pc[v] /\ Kept(v)
    BY <1>1 DEF Kept, Inv2, PendingCoherent
  <1>2. CASE pc'[v] \in {"idle", "lookup", "load", "dispatch"}
    BY <1>2
  <1>3. CASE Snapshot(v)
    <2> DEFINE s == row[req[v].inv]
    <2>1. s \in Row /\ Coherent(s) /\ s.state # "Absent" /\ req[v].amount \in Nat
      BY <1>3 DEF Snapshot, Inv1, TypeOK, WorkersOK, WorkerOK, Request, Inv2, RowCoherent
    <2>2. req[v].cmd = "pay" => req[v].amount > 0
      BY DEF Inv1, WorkersOK, WorkerOK
    <2>0. 1 \in Nat /\ 1 > 0
      OBVIOUS
    <2>3. CASE req[v].cmd = "issue"
      BY <1>3, <2>0, <2>1, <2>3, UpdatedCoherent DEF Snapshot
    <2>4. CASE req[v].cmd = "send"
      BY <1>3, <2>0, <2>1, <2>4, UpdatedCoherent DEF Snapshot
    <2>5. CASE req[v].cmd = "view"
      BY <1>3, <2>0, <2>1, <2>5, UpdatedCoherent DEF Snapshot
    <2>6. CASE req[v].cmd = "pay"
      BY <1>3, <2>1, <2>2, <2>6, UpdatedCoherent DEF Snapshot
    <2>7. CASE req[v].cmd = "void"
      BY <1>3, <2>0, <2>1, <2>7, UpdatedCoherent DEF Snapshot
    <2> QED BY <1>3, <2>3, <2>4, <2>5, <2>6, <2>7 DEF Snapshot
  <1>4. CASE Drafting(v)
    <2>1. Coherent([NoRow EXCEPT !.state = "Draft", !.total = req[v].amount, !.key = req[v].key])
      BY DEF Coherent, NoRow, NoPdf, NoNumber
    <2> QED BY <1>4, <2>1 DEF Drafting
  <1>5. CASE Counting(v)
    <2>1. PICK tax \in Taxes :
            next'[v] = [next[v] EXCEPT !.number = NextNumber, !.total = next[v].total + tax,
                          !.issuedAt = clock,
                          !.pdf = IF BlobStore
                                  THEN [number |-> NextNumber, total |-> next[v].total + tax]
                                  ELSE @]
      BY <1>5 DEF Counting
    <2>2. NextNumber \in NumberVal /\ NextNumber.n > 0
      <3>1. IsFiniteSet(IssuedIn(YearOf[clock]))
        BY FS_Subset, ConstantsAssumption DEF IssuedIn
      <3>2. CountIssued(YearOf[clock]) \in Nat
        BY <3>1, FS_CardinalityType DEF CountIssued
      <3> QED BY <3>2, NextNumberType, ConstantsAssumption DEF Inv1, NextNumber
    <2>3. next[v] \in Row /\ next[v].state = "Issued" /\ clock \in Nat /\ clock # 0
      <3>1. req[v].cmd = "issue" /\ CommandEdge(req[v].cmd, from[v], next[v].state)
        BY <1>5 DEF Counting, Inv1, WorkersOK, WorkerOK, Prepared
      <3>2. next[v].state = "Issued"
        BY <3>1 DEF CommandEdge
      <3>3. clock \in Nat /\ clock # 0
        BY ConstantsAssumption DEF Inv1, TypeOK, Instants
      <3> QED BY <3>2, <3>3 DEF Inv1, TypeOK
    <2>4. Coherent([next[v] EXCEPT !.state = "Draft"])
      BY <1>5 DEF Counting, Inv2, PendingCoherent
    <2>5. Coherent(next'[v])
      BY <2>1, <2>2, <2>3, <2>4 DEF Coherent, Row, NoNumber, NumberVal, NoPdf
    <2> QED BY <1>5, <2>5 DEF Counting
  <1>6. CASE Writing(v)
    BY <1>6 DEF Writing, Kept, Inv2, PendingCoherent
  <1> QED BY <1>1, <1>2, <1>3, <1>4, <1>5, <1>6 DEF LocalStep

LEMMA Inv2Step == ASSUME Inv1, Inv2, [Next]_vars PROVE Inv2'
  <1>1. ASSUME NEW w \in Workers, Committed(w), Others(w) PROVE Inv2'
    <2>1. RowCoherent'
      <3>1. Coherent(next[w])
        BY <1>1 DEF Committed, Inv2, PendingCoherent
      <3>2. row' = [row EXCEPT ![req[w].inv] = next[w]]
        BY <1>1 DEF Committed, SaveInTx
      <3>3. ASSUME NEW i \in Invoices PROVE Coherent(row'[i])
        BY <3>1, <3>2 DEF Inv1, TypeOK, Inv2, RowCoherent
      <3> QED BY <3>3 DEF RowCoherent
    <2>2. PendingCoherent'
      BY <1>1 DEF Committed, Others, Kept, Inv1, TypeOK, Inv2, PendingCoherent
    <2> QED BY <2>1, <2>2 DEF Inv2
  <1>2. ASSUME UNCHANGED dbVars, \A v \in Workers : LocalStep(v) PROVE Inv2'
    <2>1. RowCoherent'
      BY <1>2 DEF Inv2, RowCoherent
    <2>2. PendingCoherent'
      BY <1>2, LocalCoherent DEF PendingCoherent
    <2> QED BY <2>1, <2>2 DEF Inv2
  <1> QED BY <1>1, <1>2, StepCases

\* Whatever commands race, every stored row is coherent: state, money, number,
\* timestamps and document of one row always belong together.
THEOREM RowsCoherent == Spec => []RowCoherent
  <1>1. Spec => []Inv1
    BY TypeCorrect, PTL DEF Inv1
  <1>2. Spec => []Inv2
    BY <1>1, Inv2Init, Inv2Step, PTL DEF Spec
  <1> QED BY <1>2, PTL DEF Inv2
-----------------------------------------------------------------------------
(* Money *)

Inv3 == NoMoneyInvented /\ PendingMoney

LEMMA Inv3Step == ASSUME Inv1, Inv1', Inv3, [Next]_vars PROVE Inv3'
  <1>1. ASSUME NEW w \in Workers, Committed(w), Others(w) PROVE Inv3'
    <2>1. /\ req[w].inv \in Invoices /\ req[w].amount \in Nat /\ Pending(w)
          /\ row' = [row EXCEPT ![req[w].inv] = next[w]]
          /\ receipts' = [receipts EXCEPT ![req[w].inv] =
                              IF req[w].cmd = "pay" THEN @ + req[w].amount ELSE @]
      BY <1>1 DEF Committed, SaveInTx, Pending, Inv1, TypeOK, WorkersOK, WorkerOK, Request
    <2> DEFINE a == IF req[w].cmd = "pay" THEN req[w].amount ELSE 0
    <2>a. /\ a \in Nat /\ receipts \in [Invoices -> Nat] /\ row \in [Invoices -> Row]
          /\ next[w].paid \in Nat /\ next[w].paid <= receipts[req[w].inv] + a
      BY <2>1 DEF Inv1, TypeOK, Row, Inv3, PendingMoney
    <2>b. ASSUME NEW i \in Invoices
          PROVE  receipts'[i] = IF i = req[w].inv THEN receipts[i] + a ELSE receipts[i]
      BY <2>1, <2>a
    <2>c. ASSUME NEW i \in Invoices
          PROVE  row'[i] = IF i = req[w].inv THEN next[w] ELSE row[i]
      BY <2>1, <2>a
    <2> HIDE DEF a
    <2>2. ASSUME NEW i \in Invoices PROVE receipts[i] <= receipts'[i]
      <3>1. receipts[i] \in Nat BY <2>a
      <3> QED BY <2>a, <2>b, <3>1
    <2>3. NoMoneyInvented'
      <3>1. ASSUME NEW i \in Invoices PROVE row'[i].paid <= receipts'[i]
        <4>1. row[i].paid <= receipts[i] BY DEF Inv3, NoMoneyInvented
        <4> QED BY <2>a, <2>b, <2>c, <4>1
      <3> QED BY <3>1 DEF NoMoneyInvented
    <2>4. ASSUME NEW v \in Workers, Pending(v)'
          PROVE  next'[v].paid <= receipts'[req'[v].inv]
                                  + (IF req'[v].cmd = "pay" THEN req'[v].amount ELSE 0)
      <3>1. v # w /\ Kept(v) /\ Pending(v)
        BY <1>1, <2>4 DEF Committed, Others, Pending, Inv1, TypeOK
      <3>2. /\ req[v].inv \in Invoices /\ req[v].amount \in Nat
            /\ next[v].paid \in Nat
            /\ next[v].paid <= receipts[req[v].inv]
                               + (IF req[v].cmd = "pay" THEN req[v].amount ELSE 0)
        BY <3>1 DEF Inv1, TypeOK, WorkersOK, WorkerOK, Pending, Request, Row, Inv3, PendingMoney
      <3>3. receipts[req[v].inv] \in Nat /\ receipts'[req[v].inv] \in Nat
        BY <3>2 DEF Inv1, TypeOK
      <3> QED BY <3>1, <3>2, <3>3, <2>2 DEF Kept
    <2>5. PendingMoney'
      BY <2>4 DEF PendingMoney
    <2> QED BY <2>3, <2>5 DEF Inv3
  <1>2. ASSUME UNCHANGED dbVars, \A v \in Workers : LocalStep(v) PROVE Inv3'
    <2>1. NoMoneyInvented'
      BY <1>2 DEF Inv3, NoMoneyInvented
    <2>2. ASSUME NEW v \in Workers, Pending(v)'
          PROVE  next'[v].paid <= receipts'[req'[v].inv]
                                  + (IF req'[v].cmd = "pay" THEN req'[v].amount ELSE 0)
      <3> DEFINE s == row[req[v].inv]
      <3>1. CASE pc'[v] = pc[v] /\ Kept(v)
        BY <1>2, <2>2, <3>1 DEF Kept, Pending, Inv3, PendingMoney
      <3>2. CASE Snapshot(v)
        <4>1. /\ s \in Row /\ s.paid \in Nat /\ req[v].amount \in Nat
              /\ s.paid <= receipts[req[v].inv] /\ receipts[req[v].inv] \in Nat
          <5>1. req[v].inv \in Invoices
            <6>1. WorkerOK(v) /\ pc[v] = "load"
              BY <3>2 DEF Snapshot, Inv1, WorkersOK
            <6> QED BY <6>1 DEF WorkerOK
          <5>2. s \in Row /\ receipts[req[v].inv] \in Nat /\ req[v] \in Request
            BY <5>1 DEF Inv1, TypeOK
          <5>3. s.paid <= receipts[req[v].inv]
            BY <5>1 DEF Inv3, NoMoneyInvented
          <5>4. s.paid \in Nat
            BY <5>2 DEF Row
          <5>5. req[v].amount \in Nat
            BY <5>2, ConstantsAssumption DEF Request
          <5> QED BY <5>2, <5>3, <5>4, <5>5
        <4>2. next'[v].paid = s.paid + (IF req[v].cmd = "pay" THEN req[v].amount ELSE 0)
          <5>1. CASE req[v].cmd = "issue"
            BY <3>2, <4>1, <5>1 DEF Snapshot, Row
          <5>2. CASE req[v].cmd = "send"
            <6>1. SendUpdated(s).paid = s.paid BY <4>1 DEF Row, SendUpdated
            <6> QED BY <3>2, <4>1, <5>2, <6>1 DEF Snapshot
          <5>3. CASE req[v].cmd = "view"
            <6>1. ViewUpdated(s).paid = s.paid BY <4>1 DEF Row, ViewUpdated
            <6> QED BY <3>2, <4>1, <5>3, <6>1 DEF Snapshot
          <5>4. CASE req[v].cmd = "pay"
            BY <3>2, <4>1, <5>4 DEF Snapshot, Row, PayUpdated
          <5>5. CASE req[v].cmd = "void"
            <6>1. VoidUpdated(s).paid = s.paid BY <4>1 DEF Row, VoidUpdated
            <6> QED BY <3>2, <4>1, <5>5, <6>1 DEF Snapshot
          <5> QED BY <3>2, <5>1, <5>2, <5>3, <5>4, <5>5 DEF Snapshot
        <4>3. req'[v] = req[v] BY <3>2 DEF Snapshot
        <4> QED BY <1>2, <4>1, <4>2, <4>3
      <3>3. CASE Drafting(v)
        <4>1. next'[v].paid = 0 /\ req'[v] = req[v] /\ req[v].inv \in Invoices
              /\ req[v].amount \in Nat
          BY <3>3 DEF Drafting, NoRow, Inv1, TypeOK, WorkersOK, WorkerOK, Request
        <4>2. receipts[req[v].inv] \in Nat
          BY <4>1 DEF Inv1, TypeOK
        <4> QED BY <1>2, <4>1, <4>2
      <3>4. CASE Counting(v)
        <4>1. next'[v].paid = next[v].paid /\ req'[v] = req[v]
          BY <3>4 DEF Counting, Inv1, TypeOK, Row
        <4> QED BY <1>2, <3>4, <4>1 DEF Counting, Pending, Inv3, PendingMoney
      <3>5. CASE Writing(v)
        BY <1>2, <3>5 DEF Writing, Kept, Pending, Inv3, PendingMoney
      <3>6. CASE pc'[v] \in {"idle", "lookup", "load", "dispatch"}
        BY <2>2, <3>6 DEF Pending
      <3> QED BY <1>2, <3>1, <3>2, <3>3, <3>4, <3>5, <3>6 DEF LocalStep
    <2>3. PendingMoney'
      BY <2>2 DEF PendingMoney
    <2> QED BY <2>1, <2>3 DEF Inv3
  <1> QED BY <1>1, <1>2, StepCases

\* No interleaving of commands shows more money on an invoice than its
\* payments brought in.
THEOREM MoneyNotInvented == Spec => []NoMoneyInvented
  <1>1. Spec => []Inv1
    BY TypeCorrect, PTL DEF Inv1
  <1>2. Init => Inv3
    BY DEF Init, Inv3, NoMoneyInvented, PendingMoney, Pending, NoRow
  <1>3. Spec => []Inv3
    BY <1>1, <1>2, Inv3Step, PTL DEF Spec
  <1> QED BY <1>3, PTL DEF Inv3
-----------------------------------------------------------------------------
(* The audit trail *)

Inv4 == AuditAgrees /\ AuditTrailSound /\ PendingReached

LEMMA Inv4Commit ==
    ASSUME Inv1, Inv4, NEW w \in Workers, Committed(w), Others(w) PROVE Inv4'
  <1> DEFINE h == NewHistoryRow(w)
             n == Len(history)
  <1>1. /\ h \in HistoryRow /\ history \in Seq(HistoryRow) /\ history' = Append(history, h)
        /\ req[w].inv \in Invoices /\ Pending(w) /\ Prepared(w)
        /\ row' = [row EXCEPT ![req[w].inv] = next[w]]
    BY NewHistoryRowType
       DEF Committed, AppendHistory, SaveInTx, Prepared, Pending, Inv1, TypeOK, WorkersOK, WorkerOK
  <1>2. /\ n \in Nat /\ Len(history') = n + 1 /\ history'[n + 1] = h
        /\ \A m \in 1..n : history'[m] = history[m]
    BY <1>1
  <1>3. h.inv = req[w].inv /\ h.to = next[w].state /\ h.from = from[w] /\ h.event = req[w].cmd
    BY DEF NewHistoryRow
  <1> HIDE DEF h, n
  <1>4. ASSUME NEW i \in Invoices, row'[i].state # "Absent"
        PROVE  \E k \in 1..Len(history') :
                 /\ history'[k].inv = i /\ history'[k].to = row'[i].state
                 /\ \A m \in (k+1)..Len(history') : history'[m].inv # i
    <2>1. CASE i = req[w].inv
      <3>1. row'[i] = next[w] /\ n + 1 \in 1..Len(history')
        BY <1>1, <1>2, <2>1 DEF Inv1, TypeOK
      <3>2. \A m \in (n+1+1)..Len(history') : history'[m].inv # i
        BY <1>2
      <3> QED BY <1>2, <1>3, <2>1, <3>1, <3>2
    <2>2. CASE i # req[w].inv
      <3>1. row'[i] = row[i]
        BY <1>1, <2>2 DEF Inv1, TypeOK
      <3>2. PICK k \in 1..n : /\ history[k].inv = i /\ history[k].to = row[i].state
                              /\ \A m \in (k+1)..n : history[m].inv # i
        BY <1>4, <3>1 DEF Inv4, AuditAgrees, n
      <3>3. ASSUME NEW m \in (k+1)..(n+1) PROVE history'[m].inv # i
        BY <1>2, <1>3, <2>2, <3>2
      <3> QED BY <1>2, <3>1, <3>2, <3>3
    <2> QED BY <2>1, <2>2
  <1>5. AuditAgrees'
    BY <1>4 DEF AuditAgrees
  <1>6. CommandEdge(h.event, h.from, h.to)
    BY <1>1, <1>3 DEF Inv1, WorkersOK, WorkerOK
  <1>7. h.event # "draft" => Reached(h.inv, h.from, n)
    BY <1>1, <1>3 DEF Inv4, PendingReached, n
  <1>8. ASSUME NEW k \in 1..(n+1)
        PROVE  /\ CommandEdge(history'[k].event, history'[k].from, history'[k].to)
               /\ history'[k].event # "draft" =>
                    \E m \in 1..(k-1) : /\ history'[m].inv = history'[k].inv
                                        /\ history'[m].to = history'[k].from
    <2>1. \A m \in 1..(k-1) : history'[m] = history[m]
      BY <1>2
    <2>2. CASE k \in 1..n
      <3>1. history'[k] = history[k]
        BY <1>2, <2>2
      <3>2. /\ CommandEdge(history[k].event, history[k].from, history[k].to)
            /\ history[k].event # "draft" =>
                 \E m \in 1..(k-1) : history[m].inv = history[k].inv /\ history[m].to = history[k].from
        BY <2>2 DEF Inv4, AuditTrailSound, Reached, n
      <3> QED BY <2>1, <3>1, <3>2
    <2>3. CASE k = n + 1
      <3>1. history'[k] = h /\ k - 1 = n
        BY <1>2, <2>3
      <3>2. h.event # "draft" => \E m \in 1..n : history[m].inv = h.inv /\ history[m].to = h.from
        BY <1>7 DEF Reached
      <3> QED BY <1>6, <2>1, <3>1, <3>2
    <2> QED BY <1>2, <2>2, <2>3
  <1>9. AuditTrailSound'
    BY <1>2, <1>8 DEF AuditTrailSound, Reached
  <1>10. PendingReached'
    <2>1. ASSUME NEW v \in Workers, Pending(v)', req'[v].cmd # "draft"
          PROVE  \E m \in 1..Len(history') :
                   history'[m].inv = req'[v].inv /\ history'[m].to = from'[v]
      <3>1. v # w /\ Kept(v) /\ Pending(v)
        BY <2>1 DEF Committed, Others, Pending, Inv1, TypeOK
      <3>2. PICK m \in 1..n : history[m].inv = req[v].inv /\ history[m].to = from[v]
        BY <2>1, <3>1 DEF Kept, Inv4, PendingReached, Reached, n
      <3>3. m \in 1..Len(history') /\ history'[m] = history[m]
        BY <1>2, <3>2
      <3> QED BY <3>1, <3>2, <3>3 DEF Kept
    <2> QED BY <2>1 DEF PendingReached, Reached
  <1> QED BY <1>5, <1>9, <1>10 DEF Inv4

LEMMA Inv4Local ==
    ASSUME Inv1, Inv4, UNCHANGED dbVars, \A v \in Workers : LocalStep(v) PROVE Inv4'
  <1>1. AuditAgrees' /\ AuditTrailSound'
    BY DEF Inv4, AuditAgrees, AuditTrailSound, Reached
  <1>2. ASSUME NEW v \in Workers, Pending(v)', req'[v].cmd # "draft"
        PROVE  \E m \in 1..Len(history) :
                 history[m].inv = req'[v].inv /\ history[m].to = from'[v]
    <2>1. CASE Snapshot(v)
      <3>1. row[req[v].inv].state # "Absent" /\ req[v].inv \in Invoices
        BY <2>1 DEF Snapshot, Inv1, WorkersOK, WorkerOK
      <3>2. \E m \in 1..Len(history) :
              history[m].inv = req[v].inv /\ history[m].to = row[req[v].inv].state
        BY <3>1 DEF Inv4, AuditAgrees
      <3> QED BY <2>1, <3>2 DEF Snapshot
    <2>2. CASE ~Snapshot(v)
      <3>1. Pending(v) /\ req'[v] = req[v] /\ from'[v] = from[v]
        BY <1>2, <2>2 DEF LocalStep, Kept, Drafting, Counting, Writing, Pending
      <3> QED BY <1>2, <3>1 DEF Inv4, PendingReached, Reached
    <2> QED BY <2>1, <2>2
  <1>3. PendingReached'
    BY <1>2 DEF PendingReached, Reached
  <1> QED BY <1>1, <1>3 DEF Inv4

\* The audit trail always ends, for each invoice, in the state of its row, and
\* each of its rows is a legal transition from a state reached before.
THEOREM AuditTrailHolds == Spec => [](AuditAgrees /\ AuditTrailSound)
  <1>1. Spec => []Inv1
    BY TypeCorrect, PTL DEF Inv1
  <1>2. Init => Inv4
    BY DEF Init, Inv4, AuditAgrees, AuditTrailSound, PendingReached, Pending, NoRow
  <1>3. Inv1 /\ Inv4 /\ [Next]_vars => Inv4'
    BY StepCases, Inv4Commit, Inv4Local
  <1>4. Spec => []Inv4
    BY <1>1, <1>2, <1>3, PTL DEF Spec
  <1> QED BY <1>4, PTL DEF Inv4
-----------------------------------------------------------------------------
(* Keys, numbers and effects: what the UNIQUE columns and the order of    *)
(* sink, blob, transaction and publish guarantee.                         *)

\* What one committed transaction does to the tables.
LEMMA CommittedFacts ==
    ASSUME Inv1, NEW w \in Workers, Committed(w)
    PROVE  LET h == NewHistoryRow(w)
               n == Len(history)
           IN  /\ req[w].inv \in Invoices /\ req[w] \in Request
               /\ n \in Nat /\ Len(history') = n + 1 /\ history'[n + 1] = h
               /\ \A m \in 1..n : history'[m] = history[m]
               /\ h.inv = req[w].inv /\ h.event = req[w].cmd /\ h.key = req[w].key
               /\ h.from = from[w] /\ h.to = next[w].state /\ h.dest = req[w].dest
               /\ row'[req[w].inv] = next[w]
               /\ \A i \in Invoices \ {req[w].inv} : row'[i] = row[i]
  <1>1. NewHistoryRow(w) \in HistoryRow
    BY NewHistoryRowType DEF Committed, Prepared
  <1>2. req[w].inv \in Invoices /\ req[w] \in Request /\ history \in Seq(HistoryRow)
        /\ row \in [Invoices -> Row]
    BY DEF Committed, Inv1, TypeOK, WorkersOK, WorkerOK
  <1>3. history' = Append(history, NewHistoryRow(w))
        /\ row' = [row EXCEPT ![req[w].inv] = next[w]]
    BY DEF Committed, AppendHistory, SaveInTx
  <1>4. Len(history) \in Nat /\ Len(history') = Len(history) + 1
        /\ history'[Len(history) + 1] = NewHistoryRow(w)
        /\ \A m \in 1..Len(history) : history'[m] = history[m]
    BY <1>1, <1>2, <1>3
  <1> QED BY <1>2, <1>3, <1>4 DEF NewHistoryRow
-----------------------------------------------------------------------------
(* Keys and numbers *)

Inv5 == AtMostOncePerKey /\ UniqueNumbers /\ SendsKeyed

LEMMA Inv5Commit == ASSUME Inv1, Inv5, NEW w \in Workers, Committed(w) PROVE Inv5'
  <1> DEFINE h == NewHistoryRow(w)
             n == Len(history)
             k == req[w].inv
  <1>1. /\ k \in Invoices /\ n \in Nat /\ Len(history') = n + 1 /\ history'[n + 1] = h
        /\ \A m \in 1..n : history'[m] = history[m]
        /\ h.inv = k /\ h.event = req[w].cmd /\ h.key = req[w].key
        /\ row'[k] = next[w] /\ \A i \in Invoices \ {k} : row'[i] = row[i]
    BY CommittedFacts
  <1>2. UniqueColumns(k, next[w]) /\ SendKeyFree(req[w]) /\ InsertSendKey(w)
    BY DEF Committed
  <1> HIDE DEF h, n, k
  <1>3. UniqueNumbers'
    BY <1>1, <1>2 DEF Inv5, UniqueNumbers, UniqueColumns
  <1>4. ASSUME NEW i \in Invoices, NEW j \in Invoices, i # j, row'[i].key # NoKey
        PROVE  row'[i].key # row'[j].key
    BY <1>1, <1>2, <1>4 DEF Inv5, AtMostOncePerKey, UniqueColumns
  <1>5. sendKeys \subseteq sendKeys'
    BY <1>2 DEF InsertSendKey
  <1>6. h.event = "send" /\ h.key # NoKey =>
          <<h.inv, h.key>> \in sendKeys' /\ <<h.inv, h.key>> \notin sendKeys
    BY <1>1, <1>2 DEF InsertSendKey, SendKeyFree, k
  <1>7. ASSUME NEW m \in 1..n, history[m].event = "send", history[m].key # NoKey
        PROVE  <<history[m].inv, history[m].key>> \in sendKeys
    BY <1>7 DEF Inv5, SendsKeyed, n
  <1>8. SendsKeyed'
    <2>1. ASSUME NEW m \in 1..(n + 1), history'[m].event = "send", history'[m].key # NoKey
          PROVE  <<history'[m].inv, history'[m].key>> \in sendKeys'
      <3>1. CASE m \in 1..n
        BY <1>1, <1>5, <1>7, <2>1, <3>1
      <3>2. CASE m = n + 1
        BY <1>1, <1>6, <2>1, <3>2
      <3> QED BY <1>1, <3>1, <3>2
    <2> QED BY <1>1, <2>1 DEF SendsKeyed
  <1>9. ASSUME NEW l \in 1..(n + 1), NEW m \in 1..(n + 1),
               history'[l].event = "send", history'[m].event = "send",
               history'[l].inv = history'[m].inv,
               history'[l].key = history'[m].key, history'[l].key # NoKey
        PROVE  l = m
    <2>1. CASE l \in 1..n /\ m \in 1..n
      <3>1. history'[l] = history[l] /\ history'[m] = history[m]
        BY <1>1, <2>1
      <3> QED BY <1>9, <2>1, <3>1 DEF Inv5, AtMostOncePerKey, n
    <2>2. CASE l = n + 1 /\ m \in 1..n
      <3>1. history'[l] = h /\ history'[m] = history[m]
        BY <1>1, <2>2
      <3> QED BY <1>6, <1>7, <1>9, <2>2, <3>1
    <2>3. CASE l \in 1..n /\ m = n + 1
      <3>1. history'[l] = history[l] /\ history'[m] = h
        BY <1>1, <2>3
      <3> QED BY <1>6, <1>7, <1>9, <2>3, <3>1
    <2>4. CASE l = n + 1 /\ m = n + 1
      BY <2>4
    <2> QED BY <1>1, <2>1, <2>2, <2>3, <2>4
  <1>10. AtMostOncePerKey'
    BY <1>1, <1>4, <1>9 DEF AtMostOncePerKey
  <1> QED BY <1>3, <1>8, <1>10 DEF Inv5

LEMMA Inv5Step == ASSUME Inv1, Inv5, [Next]_vars PROVE Inv5'
  <1>1. ASSUME UNCHANGED dbVars PROVE Inv5'
    BY <1>1 DEF Inv5, AtMostOncePerKey, UniqueNumbers, SendsKeyed
  <1> QED BY <1>1, Inv5Commit, StepCases

LEMMA Inv5Init == Init => Inv5
  BY DEF Init, Inv5, AtMostOncePerKey, UniqueNumbers, SendsKeyed, NoRow

LEMMA Inv5Always == Spec => []Inv5
  <1>1. Spec => []Inv1
    BY TypeCorrect, PTL DEF Inv1
  <1> QED BY <1>1, Inv5Init, Inv5Step, PTL DEF Spec

\* A key stands for one draft and, per invoice, for one recorded send, although
\* draft_invoice and try_replay look it up long before the insert.
THEOREM OncePerKey == Spec => []AtMostOncePerKey
  BY Inv5Always, PTL DEF Inv5

\* However many issues count at the same time, no two invoices end up with one
\* number: the UNIQUE column decides at the commit.
THEOREM NumbersUnique == Spec => []UniqueNumbers
  BY Inv5Always, PTL DEF Inv5
-----------------------------------------------------------------------------
(* Effects outside the database *)

Inv6 == RecordedEffects /\ PendingEffects

\* Only Publish announces.
LEMMA AnnounceStep ==
    ASSUME Inv1, [Next]_vars
    PROVE  announced' = announced \/ \E w \in Workers : Publish(w)
  <1>1. ASSUME NEW w \in Workers, Start(w) PROVE announced' = announced
    BY <1>1 DEF Start, StartDraft, StartIssue, StartSend, StartView, StartPay, StartVoid, Begin
  <1>2. ASSUME NEW w \in Workers, Read(w) PROVE announced' = announced
    BY <1>2, ReadLocal
  <1>3. ASSUME NEW w \in Workers, Write(w) PROVE announced' = announced
    BY <1>3, WriteCases DEF Committed
  <1>4. ASSUME NEW w \in Workers, Fail(w) \/ IssueCount(w) \/ WriteSink(w) \/ Dispatch(w)
        PROVE  announced' = announced
    BY <1>4 DEF Fail, IssueCount, WriteSink, Dispatch
  <1>5. CASE UNCHANGED vars \/ Tick
    BY <1>5 DEF Tick
  <1> QED BY <1>1, <1>2, <1>3, <1>4, <1>5 DEF Next

\* The announcement of a worker names the row it has committed.
LEMMA AnnouncedStep ==
    ASSUME Inv1, Inv6, [Next]_vars,
           \A m \in 1..Len(history) : m \in 1..Len(history') /\ history'[m] = history[m]
    PROVE  AnnouncedCommitted'
  <1>1. ASSUME NEW e \in announced'
        PROVE  \E m \in 1..Len(history) :
                 /\ history[m].inv = e.inv /\ history[m].event = e.event
                 /\ history[m].from = e.from /\ history[m].to = e.to
    <2>1. CASE e \in announced
      BY <2>1 DEF Inv6, RecordedEffects, AnnouncedCommitted
    <2>2. CASE e \notin announced
      <3>1. PICK w \in Workers : Publish(w)
        BY <1>1, <2>2, AnnounceStep
      <3>2. /\ pc[w] = "publish"
            /\ e = [inv |-> req[w].inv, from |-> from[w], to |-> next[w].state,
                    event |-> req[w].cmd]
        BY <1>1, <2>2, <3>1 DEF Publish
      <3> QED BY <3>2 DEF Inv6, PendingEffects
    <2> QED BY <2>1, <2>2
  <1> QED BY <1>1 DEF AnnouncedCommitted

\* A transaction: what it records was written, and what it refers to is stored.
LEMMA Inv6Commit ==
    ASSUME Inv1, Inv6, NEW w \in Workers, Committed(w), Others(w), [Next]_vars
    PROVE  Inv6'
  <1> DEFINE h == NewHistoryRow(w)
             n == Len(history)
             k == req[w].inv
  <1>1. /\ k \in Invoices /\ req[w] \in Request
        /\ n \in Nat /\ Len(history') = n + 1 /\ history'[n + 1] = h
        /\ \A m \in 1..n : history'[m] = history[m]
        /\ h.inv = k /\ h.event = req[w].cmd /\ h.key = req[w].key
        /\ h.from = from[w] /\ h.to = next[w].state /\ h.dest = req[w].dest
        /\ row'[k] = next[w] /\ \A i \in Invoices \ {k} : row'[i] = row[i]
    BY CommittedFacts
  <1>2. /\ pc[w] = "commit" /\ UNCHANGED <<outVars, req, from, next>>
        /\ pc' = [pc EXCEPT ![w] = "publish"] /\ pc \in [Workers -> PcVal]
    BY DEF Committed, Inv1, TypeOK
  <1> HIDE DEF h, n, k
  <1>3. AnnouncedCommitted'
    BY <1>1, AnnouncedStep DEF n
  <1>4. DeliveredBeforeRecorded'
    <2>1. ASSUME NEW m \in 1..(n + 1), history'[m].event = "send", history'[m].dest = "local"
          PROVE  delivered[history'[m].inv][history'[m].key] > 0
      <3>1. CASE m \in 1..n
        BY <1>1, <2>1, <3>1 DEF Inv6, RecordedEffects, DeliveredBeforeRecorded, n
      <3>2. CASE m = n + 1
        BY <1>1, <1>2, <2>1, <3>2 DEF Inv6, PendingEffects, k
      <3> QED BY <1>1, <3>1, <3>2
    <2> QED BY <1>1, <1>2, <2>1 DEF DeliveredBeforeRecorded
  <1>5. PdfBacked'
    BY <1>1, <1>2 DEF Inv6, RecordedEffects, PdfBacked, PendingEffects, Pending, k
  <1>6. ASSUME NEW v \in Workers, pc'[v] = "publish"
        PROVE  \E m \in 1..Len(history') :
                 /\ history'[m].inv = req'[v].inv /\ history'[m].event = req'[v].cmd
                 /\ history'[m].from = from'[v] /\ history'[m].to = next'[v].state
    <2>1. CASE v = w
      <3>1. n + 1 \in 1..Len(history') BY <1>1
      <3> QED BY <1>1, <1>2, <2>1, <3>1 DEF k
    <2>2. CASE v # w
      <3>1. PICK m \in 1..n :
              /\ history[m].inv = req[v].inv /\ history[m].event = req[v].cmd
              /\ history[m].from = from[v] /\ history[m].to = next[v].state
        BY <1>2, <1>6, <2>2 DEF Inv6, PendingEffects, n
      <3> QED BY <1>1, <1>2, <3>1
    <2> QED BY <2>1, <2>2
  <1>7. PendingEffects'
    BY <1>2, <1>6 DEF Inv6, PendingEffects, Pending
  <1> QED BY <1>3, <1>4, <1>5, <1>7 DEF Inv6, RecordedEffects

\* The worker's part of Inv6 after a local step of its own or of another worker.
LEMMA LocalEffects ==
    ASSUME Inv1, Inv6, UNCHANGED dbVars, NEW v \in Workers, LocalStep(v), Accumulate,
           TypeOK'
    PROVE  /\ pc'[v] = "publish" => \E n \in 1..Len(history) :
                /\ history[n].inv = req'[v].inv /\ history[n].event = req'[v].cmd
                /\ history[n].from = from'[v] /\ history[n].to = next'[v].state
           /\ pc'[v] = "commit" /\ req'[v].cmd = "send" /\ req'[v].dest = "local"
                => delivered'[req'[v].inv][req'[v].key] > 0
           /\ Pending(v)' /\ next'[v].pdf # NoPdf => next'[v].pdf \in blobs'[req'[v].inv]
  <1> DEFINE s == row[req[v].inv]
             Grown == /\ \A i \in Invoices : blobs[i] \subseteq blobs'[i]
                      /\ \A i \in Invoices, k \in KeyOpt :
                            delivered[i][k] > 0 => delivered'[i][k] > 0
  <1>1. Grown
    <2>1. ASSUME NEW i \in Invoices, NEW k \in KeyOpt, delivered[i][k] > 0
          PROVE  delivered'[i][k] > 0
      <3>1. delivered[i][k] \in Nat /\ delivered'[i][k] \in Nat
            /\ delivered[i][k] <= delivered'[i][k]
        BY DEF Inv1, TypeOK, Accumulate
      <3> QED BY <2>1, <3>1
    <2> QED BY <2>1 DEF Accumulate
  <1>2. pc[v] # "idle" => req[v].inv \in Invoices /\ req[v].key \in KeyOpt
    BY DEF Inv1, TypeOK, WorkersOK, WorkerOK, Request
  <1>3. CASE pc'[v] = pc[v] /\ Kept(v)
    BY <1>1, <1>2, <1>3 DEF Kept, Pending, Inv6, PendingEffects
  <1>4. CASE pc'[v] \in {"idle", "lookup", "load", "dispatch"}
    BY <1>4 DEF Pending
  <1>5. CASE Snapshot(v)
    <2>1. s \in Row /\ s.state # "Absent" /\ req[v].inv \in Invoices /\ pc[v] = "load"
          /\ req[v].amount \in Nat
      BY <1>5 DEF Snapshot, Inv1, TypeOK, WorkersOK, WorkerOK, Request
    <2>2. next'[v].pdf = s.pdf
      BY <1>5, <2>1 DEF Snapshot, Row, SendUpdated, ViewUpdated, PayUpdated, VoidUpdated
    <2>3. s.pdf # NoPdf => s.pdf \in blobs'[req[v].inv]
      BY <1>1, <2>1 DEF Inv6, RecordedEffects, PdfBacked
    <2>4. pc'[v] # "publish" /\ req'[v] = req[v]
          /\ (pc'[v] = "commit" => ~(req[v].cmd = "send" /\ req[v].dest = "local"))
      BY <1>5 DEF Snapshot
    <2> QED BY <2>2, <2>3, <2>4
  <1>6. CASE Drafting(v)
    BY <1>6 DEF Drafting, NoRow
  <1>7. CASE Counting(v)
    <2>1. PICK tax \in Taxes :
            LET pdf == [number |-> NextNumber, total |-> next[v].total + tax]
            IN  /\ next'[v] = [next[v] EXCEPT !.number = NextNumber,
                                 !.total = next[v].total + tax, !.issuedAt = clock,
                                 !.pdf = IF BlobStore THEN pdf ELSE @]
                /\ BlobStore => pdf \in blobs'[req[v].inv]
      BY <1>7 DEF Counting
    <2>2. next[v] \in Row /\ pc[v] = "count" /\ pc'[v] = "commit" /\ req'[v] = req[v]
          /\ req[v].cmd = "issue"
      BY <1>7 DEF Counting, Inv1, TypeOK, WorkersOK, WorkerOK
    <2>3. CASE BlobStore
      BY <2>1, <2>2, <2>3 DEF Row
    <2>4. CASE ~BlobStore
      <3>1. next'[v].pdf = next[v].pdf
        BY <2>1, <2>2, <2>4 DEF Row
      <3> QED BY <1>1, <1>2, <2>2, <3>1 DEF Inv6, PendingEffects, Pending
    <2> QED BY <2>3, <2>4
  <1>8. CASE Writing(v)
    BY <1>1, <1>2, <1>8 DEF Writing, Kept, Pending, Inv6, PendingEffects
  <1> QED BY <1>3, <1>4, <1>5, <1>6, <1>7, <1>8 DEF LocalStep

LEMMA Inv6Local ==
    ASSUME Inv1, Inv1', Inv6, [Next]_vars, UNCHANGED dbVars, Accumulate,
           \A v \in Workers : LocalStep(v)
    PROVE  Inv6'
  <1>1. AnnouncedCommitted'
    BY AnnouncedStep
  <1>2. DeliveredBeforeRecorded'
    <2>1. ASSUME NEW n \in 1..Len(history), history[n].event = "send", history[n].dest = "local"
          PROVE  delivered'[history[n].inv][history[n].key] > 0
      <3> DEFINE i == history[n].inv
                 k == history[n].key
      <3>0. history[n] \in HistoryRow
        BY DEF Inv1, TypeOK
      <3>1. i \in Invoices /\ k \in KeyOpt
        BY <3>0 DEF HistoryRow
      <3>2. delivered[i][k] \in Nat /\ delivered'[i][k] \in Nat
            /\ delivered[i][k] <= delivered'[i][k]
        BY <3>1 DEF Inv1, TypeOK, Accumulate
      <3>3. delivered[i][k] > 0
        BY <2>1 DEF Inv6, RecordedEffects, DeliveredBeforeRecorded
      <3> QED BY <3>2, <3>3
    <2> QED BY <2>1 DEF DeliveredBeforeRecorded
  <1>3. PdfBacked'
    BY DEF Inv6, RecordedEffects, PdfBacked, Accumulate
  <1>4. PendingEffects'
    BY LocalEffects DEF Inv1, PendingEffects
  <1> QED BY <1>1, <1>2, <1>3, <1>4 DEF Inv6, RecordedEffects

\* Wherever a command stops, nothing is announced before it is committed,
\* recorded as sent before it is written, or referred to before it is stored.
THEOREM EffectsRecorded == Spec => []RecordedEffects
  <1>1. Spec => []Inv1
    BY TypeCorrect, PTL DEF Inv1
  <1>2. Init => Inv6
    BY DEF Init, Inv6, RecordedEffects, AnnouncedCommitted, DeliveredBeforeRecorded, PdfBacked,
           PendingEffects, Pending, NoRow
  <1>3. Inv1 /\ Inv1' /\ Inv6 /\ [Next]_vars => Inv6'
    BY StepCases, Inv6Commit, Inv6Local
  <1>4. Spec => []Inv6
    BY <1>1, <1>2, <1>3, PTL DEF Spec
  <1> QED BY <1>4, PTL DEF Inv6
-----------------------------------------------------------------------------
(* Ids, and what an issue can never lose *)

\* A draft that a step leaves under way was under way before, or one worker has
\* just started it under a fresh id.
DraftsFrom ==
    \/ \A v \in Workers : req'[v].cmd = "draft" =>
          req'[v] = req[v] /\ (pc'[v] # "publish" => pc[v] # "publish")
    \/ \E w \in Workers :
          /\ Fresh(req'[w].inv) /\ req'[w].inv \in Invoices /\ UNCHANGED dbVars
          /\ \A v \in Workers \ {w} : req'[v] = req[v] /\ pc'[v] = pc[v]

LEMMA FinishDrafts == ASSUME Inv1, NEW w \in Workers, Finish(w) PROVE DraftsFrom
  <1>1. req'[w].cmd = "none"
    BY DEF Finish, NoRequest, Inv1, TypeOK
  <1>2. \A v \in Workers \ {w} : req'[v] = req[v] /\ pc'[v] = pc[v]
    BY DEF Finish, Inv1, TypeOK
  <1> QED BY <1>1, <1>2 DEF DraftsFrom

LEMMA DraftsStep == ASSUME Inv1, [Next]_vars PROVE DraftsFrom
  <1>1. CASE UNCHANGED vars \/ Tick
    BY <1>1 DEF Tick, DraftsFrom
  <1>2. ASSUME NEW w \in Workers, Start(w) PROVE DraftsFrom
    <2>1. CASE StartDraft(w)
      <3>1. PICK i \in Invoices, k \in KeyOpt, a \in Subtotals :
              Fresh(i) /\ Begin(w, Cmd("draft", i, k, a, "none"), "lookup")
        BY <2>1 DEF StartDraft
      <3>2. req'[w].inv = i /\ UNCHANGED dbVars
            /\ \A v \in Workers \ {w} : req'[v] = req[v] /\ pc'[v] = pc[v]
        BY <3>1 DEF Begin, Cmd, Inv1, TypeOK
      <3> QED BY <3>1, <3>2 DEF DraftsFrom
    <2>2. CASE ~StartDraft(w)
      <3>1. req'[w].cmd # "draft"
        BY <1>2, <2>2 DEF Start, StartIssue, StartSend, StartView, StartPay, StartVoid,
                          Begin, Cmd, Inv1, TypeOK
      <3>2. \A v \in Workers \ {w} : req'[v] = req[v] /\ pc'[v] = pc[v]
        BY <1>2 DEF Start, StartDraft, StartIssue, StartSend, StartView, StartPay, StartVoid,
                    Begin, Inv1, TypeOK
      <3> QED BY <3>1, <3>2 DEF DraftsFrom
    <2> QED BY <2>1, <2>2
  <1>3. ASSUME NEW w \in Workers, Finish(w) PROVE DraftsFrom
    BY <1>3, FinishDrafts
  <1>4. ASSUME NEW w \in Workers, Read(w), ~Finish(w) PROVE DraftsFrom
    <2>1. req' = req /\ pc[w] # "publish" /\ \A v \in Workers \ {w} : pc'[v] = pc[v]
      BY <1>4 DEF Read, DraftLookup, SendLookup, IssueLoad, SendLoad, ViewLoad, PayLoad,
                  VoidLoad, Load, Inv1, TypeOK
    <2> QED BY <2>1 DEF DraftsFrom
  <1>5. ASSUME NEW w \in Workers, Write(w), ~Finish(w) PROVE DraftsFrom
    <2>1. Committed(w)
      BY <1>5, WriteCases
    <2>2. req' = req /\ pc[w] = "commit" /\ \A v \in Workers \ {w} : pc'[v] = pc[v]
      BY <2>1 DEF Committed, Inv1, TypeOK
    <2> QED BY <2>2 DEF DraftsFrom
  <1>6. ASSUME NEW w \in Workers, IssueCount(w) \/ WriteSink(w) PROVE DraftsFrom
    <2>1. req' = req /\ pc[w] # "publish" /\ \A v \in Workers \ {w} : pc'[v] = pc[v]
      BY <1>6 DEF IssueCount, WriteSink, Inv1, TypeOK
    <2> QED BY <2>1 DEF DraftsFrom
  <1>7. ASSUME NEW w \in Workers, Publish(w), ~Finish(w) PROVE DraftsFrom
    <2>1. req' = req /\ req[w].dest = "webhook" /\ \A v \in Workers \ {w} : pc'[v] = pc[v]
      BY <1>7 DEF Publish, Inv1, TypeOK
    <2>2. req[w].cmd = "send"
      BY <2>1 DEF Inv1, WorkersOK, WorkerOK
    <2> QED BY <2>1, <2>2 DEF DraftsFrom
  <1>8. ASSUME NEW w \in Workers, Fail(w) \/ Dispatch(w) PROVE DraftsFrom
    BY <1>8, <1>3 DEF Fail, Dispatch
  <1> QED BY <1>1, <1>2, <1>3, <1>4, <1>5, <1>6, <1>7, <1>8 DEF Next

\* No two drafts share an id, and a row never disappears.
LEMMA IdsStep == ASSUME Inv1, IdsOK, [Next]_vars PROVE IdsOK'
  <1>1. ASSUME NEW i \in Invoices, row[i].state # "Absent" PROVE row'[i].state # "Absent"
    <2>1. ASSUME NEW w \in Workers, Committed(w), i = req[w].inv
          PROVE  row'[i].state # "Absent"
      <3>1. row'[i] = next[w] /\ CommandEdge(req[w].cmd, from[w], next[w].state)
        BY <2>1, CommittedFacts DEF Committed, Prepared, Inv1, WorkersOK, WorkerOK
      <3> QED BY <3>1 DEF CommandEdge
    <2>2. ASSUME NEW w \in Workers, Committed(w), i # req[w].inv
          PROVE  row'[i].state # "Absent"
      BY <1>1, <2>2, CommittedFacts
    <2> QED BY <1>1, <2>1, <2>2, StepCases
  <1>2. ASSUME NEW w \in Workers, req'[w].cmd = "draft", pc'[w] # "publish"
        PROVE  /\ row'[req'[w].inv].state = "Absent"
               /\ \A v \in Workers : req'[v].cmd = "draft" /\ req'[v].inv = req'[w].inv => v = w
    <2>1. CASE \A v \in Workers : req'[v].cmd = "draft" =>
                  req'[v] = req[v] /\ (pc'[v] # "publish" => pc[v] # "publish")
      <3>1. /\ req'[w] = req[w] /\ pc[w] # "publish" /\ req[w].cmd = "draft"
            /\ row[req[w].inv].state = "Absent"
            /\ \A v \in Workers : req[v].cmd = "draft" /\ req[v].inv = req[w].inv => v = w
        BY <1>2, <2>1 DEF IdsOK
      <3>2. req[w].inv \in Invoices
        BY <3>1 DEF Inv1, WorkersOK, WorkerOK, NoRequest
      <3>3. ASSUME NEW v \in Workers, Committed(v) PROVE row'[req[w].inv].state = "Absent"
        <4>1. CASE req[v].inv # req[w].inv
          BY <3>1, <3>2, <3>3, <4>1, CommittedFacts
        <4>2. CASE req[v].inv = req[w].inv
          <5>1. v # w
            BY <1>2, <3>3 DEF Committed, Inv1, TypeOK
          <5>2. req[v].cmd # "draft" /\ Pending(v)
            BY <3>1, <3>3, <4>2, <5>1 DEF Committed, Pending
          <5> QED BY <3>1, <4>2, <5>2 DEF IdsOK
        <4> QED BY <4>1, <4>2
      <3>4. row'[req[w].inv].state = "Absent"
        BY <3>1, <3>3, StepCases
      <3> QED BY <2>1, <3>1, <3>4
    <2>2. ASSUME NEW x \in Workers, Fresh(req'[x].inv), req'[x].inv \in Invoices,
                 UNCHANGED dbVars,
                 \A v \in Workers \ {x} : req'[v] = req[v] /\ pc'[v] = pc[v]
          PROVE  /\ row'[req'[w].inv].state = "Absent"
                 /\ \A v \in Workers : req'[v].cmd = "draft" /\ req'[v].inv = req'[w].inv => v = w
      <3>1. CASE w = x
        BY <2>2, <3>1 DEF Fresh
      <3>2. CASE w # x
        BY <1>2, <2>2, <3>2 DEF Fresh, IdsOK
      <3> QED BY <3>1, <3>2
    <2> QED BY <2>1, <2>2, DraftsStep DEF DraftsFrom
  <1>3. ASSUME NEW w \in Workers, Pending(w)', req'[w].cmd # "draft"
        PROVE  row'[req'[w].inv].state # "Absent"
    <2>1. CASE Pending(w) /\ req'[w] = req[w]
      <3>1. req[w].inv \in Invoices /\ row[req[w].inv].state # "Absent"
        BY <1>3, <2>1 DEF IdsOK, Pending, Inv1, WorkersOK, WorkerOK
      <3> QED BY <1>1, <2>1, <3>1
    <2>2. CASE ~(Pending(w) /\ req'[w] = req[w])
      <3>1. UNCHANGED dbVars /\ LocalStep(w)
        <4>1. ASSUME NEW v \in Workers, Committed(v), Others(v) PROVE FALSE
          BY <1>3, <2>2, <4>1 DEF Committed, Others, Kept, Pending, Inv1, TypeOK
        <4> QED BY <4>1, StepCases
      <3>2. Snapshot(w)
        BY <1>3, <2>2, <3>1 DEF LocalStep, Kept, Drafting, Counting, Writing, Pending
      <3> QED BY <3>1, <3>2 DEF Snapshot
    <2> QED BY <2>1, <2>2
  <1> QED BY <1>2, <1>3 DEF IdsOK

\* An issued invoice keeps a number and an issue date, even when a command that
\* read it before writes its whole row back.
THEOREM IssueIsForGood == Spec => IssuedForGood
  <1>1. Spec => []Inv1
    BY TypeCorrect, PTL DEF Inv1
  <1>2. Spec => []Inv2
    BY <1>1, Inv2Init, Inv2Step, PTL DEF Spec
  <1>3. Init => IdsOK
    BY DEF Init, IdsOK, NoRequest, Pending
  <1>4. Spec => []IdsOK
    BY <1>1, <1>3, IdsStep, PTL DEF Spec
  <1>5. ASSUME Inv1, Inv2, Inv2', IdsOK, [Next]_vars,
               NEW i \in Invoices, row[i].number # NoNumber
        PROVE  row'[i].number # NoNumber /\ row'[i].issuedAt # 0
    <2>1. Coherent(row[i]) /\ Coherent(row'[i])
      BY <1>5 DEF Inv2, RowCoherent
    <2>2. ASSUME NEW w \in Workers, Committed(w), i = req[w].inv
          PROVE  row'[i].state \notin {"Absent", "Draft"}
      <3>1. row'[i] = next[w] /\ CommandEdge(req[w].cmd, from[w], next[w].state)
        BY <1>5, <2>2, CommittedFacts DEF Committed, Prepared, Inv1, WorkersOK, WorkerOK
      <3>2. req[w].cmd # "draft"
        <4>1. pc[w] # "publish" /\ row[i].state # "Absent"
          BY <1>5, <2>1, <2>2 DEF Committed, Coherent
        <4> QED BY <1>5, <2>2, <4>1 DEF IdsOK
      <3> QED BY <3>1, <3>2 DEF CommandEdge
    <2>3. ASSUME NEW w \in Workers, Committed(w), i # req[w].inv
          PROVE  row'[i] = row[i]
      BY <1>5, <2>3, CommittedFacts
    <2>4. row'[i] = row[i] \/ row'[i].state \notin {"Absent", "Draft"}
      BY <1>5, <2>2, <2>3, StepCases
    <2> QED BY <1>5, <2>1, <2>4 DEF Coherent
  <1>6. Inv1 /\ Inv2 /\ Inv2' /\ IdsOK /\ [Next]_vars =>
          [\A i \in Invoices : row[i].number # NoNumber =>
              row'[i].number # NoNumber /\ row'[i].issuedAt # 0]_vars
    BY <1>5
  <1> QED BY <1>1, <1>2, <1>4, <1>6, PTL DEF Spec, IssuedForGood
-----------------------------------------------------------------------------
(* Commands that run one at a time: the ledger, the chain of the history, *)
(* final states and dense numbers.  Each of these fails with two workers  *)
(* (README, section 3).                                                   *)

\* There is at most one worker.
OneAtATime == \A v, w \in Workers : v = w

\* What holds for any number of workers and is used here.
Base == Inv1 /\ Inv2 /\ Inv4 /\ IdsOK

LEMMA BaseAlways == Spec => []Base
  <1>1. Spec => []Inv1
    BY TypeCorrect, PTL DEF Inv1
  <1>2. Spec => []Inv2
    BY <1>1, Inv2Init, Inv2Step, PTL DEF Spec
  <1>3. Init => Inv4
    BY DEF Init, Inv4, AuditAgrees, AuditTrailSound, PendingReached, Pending, NoRow
  <1>4. Inv1 /\ Inv4 /\ [Next]_vars => Inv4'
    BY StepCases, Inv4Commit, Inv4Local
  <1>5. Spec => []Inv4
    BY <1>1, <1>3, <1>4, PTL DEF Spec
  <1>6. Init => IdsOK
    BY DEF Init, IdsOK, NoRequest, Pending
  <1>7. Spec => []IdsOK
    BY <1>1, <1>6, IdsStep, PTL DEF Spec
  <1> QED BY <1>1, <1>2, <1>5, <1>7, PTL DEF Base

\* With one worker a step either commits, and leaves nothing pending, or
\* leaves the tables alone.
LEMMA AloneCases ==
    ASSUME OneAtATime, Inv1, [Next]_vars
    PROVE  \/ \E w \in Workers : Committed(w) /\ \A v \in Workers : v = w /\ ~Pending(v)'
           \/ UNCHANGED dbVars /\ \A v \in Workers : LocalStep(v)
  <1>1. ASSUME NEW w \in Workers, Committed(w), NEW v \in Workers PROVE v = w /\ ~Pending(v)'
    BY <1>1 DEF OneAtATime, Committed, Pending, Inv1, TypeOK
  <1> QED BY <1>1, StepCases
-----------------------------------------------------------------------------
(* The ledger and the trail *)

Inv7 == LedgerExact /\ HistoryChain /\ UnrecordedAbsent /\ Undisturbed

LEMMA Inv7Commit ==
    ASSUME Base, Inv7, NEW w \in Workers, Committed(w), \A v \in Workers : ~Pending(v)'
    PROVE  Inv7'
  <1> DEFINE h == NewHistoryRow(w)
             n == Len(history)
             k == req[w].inv
  <1>1. /\ k \in Invoices /\ req[w] \in Request
        /\ n \in Nat /\ Len(history') = n + 1 /\ history'[n + 1] = h
        /\ \A m \in 1..n : history'[m] = history[m]
        /\ h.inv = k /\ h.from = from[w] /\ h.to = next[w].state
        /\ row'[k] = next[w] /\ \A i \in Invoices \ {k} : row'[i] = row[i]
    BY CommittedFacts DEF Base
  <1>2. /\ from[w] = row[k].state
        /\ next[w].paid = row[k].paid + (IF req[w].cmd = "pay" THEN req[w].amount ELSE 0)
    BY DEF Inv7, Undisturbed, Committed, Pending
  <1>3. next[w].state # "Absent"
    <2>1. CommandEdge(req[w].cmd, from[w], next[w].state)
      BY DEF Base, Inv1, WorkersOK, WorkerOK, Prepared, Committed
    <2> QED BY <2>1 DEF CommandEdge
  <1>4. \A m \in 1..n : history[m] \in HistoryRow
    BY DEF Base, Inv1, TypeOK, n
  <1> HIDE DEF h, n, k
  <1>5. LedgerExact'
    <2>1. receipts' = [receipts EXCEPT ![k] =
                          IF req[w].cmd = "pay" THEN @ + req[w].amount ELSE @]
          /\ receipts \in [Invoices -> Nat] /\ req[w].amount \in Nat
      BY <1>1 DEF Committed, Base, Inv1, TypeOK, Request, k
    <2>2. ASSUME NEW i \in Invoices PROVE row'[i].paid = receipts'[i]
      <3>1. row[i].paid = receipts[i]
        BY DEF Inv7, LedgerExact
      <3>2. CASE i = k
        BY <1>1, <1>2, <2>1, <3>1, <3>2
      <3>3. CASE i # k
        BY <1>1, <2>1, <3>1, <3>3
      <3> QED BY <3>2, <3>3
    <2> QED BY <2>2 DEF LedgerExact
  <1>6. UnrecordedAbsent'
    <2>1. ASSUME NEW i \in Invoices, row'[i].state = "Absent", NEW m \in 1..(n + 1)
          PROVE  history'[m].inv # i
      <3>1. i # k /\ row[i].state = "Absent"
        BY <1>1, <1>3, <2>1
      <3>2. CASE m \in 1..n
        BY <1>1, <3>1, <3>2 DEF Inv7, UnrecordedAbsent, n
      <3>3. CASE m = n + 1
        BY <1>1, <3>1, <3>3
      <3> QED BY <1>1, <3>2, <3>3
    <2> QED BY <1>1, <2>1 DEF UnrecordedAbsent
  <1>7. HistoryChain'
    <2> DEFINE Before(H, m) == {l \in 1..(m - 1) : H[l].inv = H[m].inv}
               Chained(H, m) == IF Before(H, m) = {} THEN H[m].from = "Absent"
                                ELSE \E l \in Before(H, m) : /\ \A j \in Before(H, m) : j <= l
                                                             /\ H[l].to = H[m].from
    <2>1. ASSUME NEW m \in 1..n PROVE Chained(history', m)
      <3>1. Chained(history, m)
        BY DEF Inv7, HistoryChain, n
      <3>2. history'[m] = history[m] /\ \A l \in 1..(m - 1) : history'[l] = history[l]
        BY <1>1
      <3>3. Before(history', m) = Before(history, m)
        BY <3>2
      <3>4. \A l \in Before(history, m) : history'[l] = history[l]
        BY <3>2
      <3> HIDE DEF Before
      <3> QED BY <3>1, <3>2, <3>3, <3>4
    <2>2. Chained(history', n + 1)
      <3>1. Before(history', n + 1) = {l \in 1..n : history[l].inv = k}
        BY <1>1
      <3>2. CASE row[k].state = "Absent"
        <4>1. Before(history', n + 1) = {}
          BY <1>1, <3>1, <3>2 DEF Inv7, UnrecordedAbsent, n
        <4> HIDE DEF Before
        <4> QED BY <1>1, <1>2, <3>2, <4>1
      <3>3. CASE row[k].state # "Absent"
        <4>1. PICK l \in 1..n : /\ history[l].inv = k /\ history[l].to = row[k].state
                                /\ \A m \in (l + 1)..n : history[m].inv # k
          BY <1>1, <3>3 DEF Base, Inv4, AuditAgrees, n
        <4>2. l \in Before(history', n + 1) /\ history'[l] = history[l]
          BY <1>1, <3>1, <4>1
        <4>3. \A j \in Before(history', n + 1) : j <= l
          BY <1>1, <3>1, <4>1
        <4> HIDE DEF Before
        <4> QED BY <1>1, <1>2, <4>1, <4>2, <4>3
      <3> QED BY <3>2, <3>3
    <2>3. \A m \in 1..(n + 1) : Chained(history', m)
      BY <1>1, <2>1, <2>2
    <2> QED BY <1>1, <2>3 DEF HistoryChain
  <1>8. Undisturbed'
    BY DEF Undisturbed
  <1> QED BY <1>5, <1>6, <1>7, <1>8 DEF Inv7

\* A snapshot is the row, a draft starts from no row, and later steps keep it so.
LEMMA UndisturbedLocal ==
    ASSUME Base, Undisturbed, UNCHANGED dbVars, NEW v \in Workers, LocalStep(v), Pending(v)'
    PROVE  LET s == row[req'[v].inv]
           IN  /\ from'[v] = s.state
               /\ next'[v].paid = s.paid + (IF req'[v].cmd = "pay" THEN req'[v].amount ELSE 0)
               /\ req'[v].cmd # "issue" => next'[v].number = s.number
  <1> DEFINE s == row[req[v].inv]
  <1>1. CASE pc'[v] = pc[v] /\ Kept(v)
    BY <1>1 DEF Kept, Pending, Undisturbed
  <1>2. CASE Snapshot(v)
    <2>1. s \in Row /\ s.paid \in Nat /\ req[v].amount \in Nat /\ req'[v] = req[v]
          /\ from'[v] = s.state
      BY <1>2 DEF Snapshot, Base, Inv1, TypeOK, WorkersOK, WorkerOK, Request, Row
    <2>2. CASE req[v].cmd = "pay"
      <3>1. next'[v] = PayUpdated(s, req[v].amount)
        BY <1>2, <2>2 DEF Snapshot
      <3>2. next'[v].paid = s.paid + req[v].amount /\ next'[v].number = s.number
        BY <2>1, <3>1 DEF PayUpdated, Row
      <3> QED BY <2>1, <2>2, <3>2
    <2>3. CASE req[v].cmd # "pay"
      <3>1. next'[v].paid = s.paid /\ next'[v].number = s.number
        BY <1>2, <2>1, <2>3 DEF Snapshot, Row, SendUpdated, ViewUpdated, VoidUpdated
      <3> QED BY <2>1, <2>3, <3>1
    <2> QED BY <2>2, <2>3
  <1>3. CASE Drafting(v)
    <2>1. req'[v] = req[v] /\ req[v].cmd = "draft" /\ req[v].inv \in Invoices
          /\ s.state = "Absent" /\ from'[v] = "Absent"
      BY <1>3 DEF Drafting, Base, IdsOK, Inv1, WorkersOK, WorkerOK
    <2>2. s = NoRow
      BY <2>1 DEF Base, Inv2, RowCoherent, Coherent
    <2>3. next'[v].paid = 0 /\ next'[v].number = NoRow.number /\ NoRow.paid = 0
      BY <1>3 DEF Drafting, NoRow
    <2> QED BY <2>1, <2>2, <2>3
  <1>4. CASE Counting(v)
    <2>1. /\ Pending(v) /\ req'[v] = req[v] /\ from'[v] = from[v] /\ req[v].cmd = "issue"
          /\ next'[v].paid = next[v].paid
      BY <1>4 DEF Counting, Pending, Base, Inv1, TypeOK, WorkersOK, WorkerOK, Row
    <2> QED BY <2>1 DEF Undisturbed
  <1>5. CASE Writing(v)
    BY <1>5 DEF Writing, Kept, Pending, Undisturbed
  <1>6. CASE pc'[v] \in {"idle", "lookup", "load", "dispatch"}
    BY <1>6 DEF Pending
  <1> QED BY <1>1, <1>2, <1>3, <1>4, <1>5, <1>6 DEF LocalStep

LEMMA Inv7Step == ASSUME OneAtATime, Base, Inv7, [Next]_vars PROVE Inv7'
  <1>1. ASSUME UNCHANGED dbVars, \A v \in Workers : LocalStep(v) PROVE Inv7'
    <2>1. Undisturbed'
      BY <1>1, UndisturbedLocal DEF Inv7, Undisturbed
    <2>2. LedgerExact' /\ HistoryChain' /\ UnrecordedAbsent'
      BY <1>1 DEF Inv7, LedgerExact, HistoryChain, UnrecordedAbsent
    <2> QED BY <2>1, <2>2 DEF Inv7
  <1> QED BY <1>1, Inv7Commit, AloneCases DEF Base

LEMMA Inv7Init == Init => Inv7
  BY DEF Init, Inv7, LedgerExact, HistoryChain, UnrecordedAbsent, Undisturbed, Pending, NoRow

LEMMA Inv7Always == ASSUME OneAtATime PROVE Spec => []Inv7
  <1>1. Base /\ Inv7 /\ [Next]_vars => Inv7'
    BY Inv7Step
  <1> QED BY <1>1, BaseAlways, Inv7Init, PTL DEF Spec

\* One command at a time: amount_paid is the sum of the payments recorded.
THEOREM LedgerIsExact == ASSUME OneAtATime PROVE Spec => []LedgerExact
  BY Inv7Always, PTL DEF Inv7

\* One command at a time: each history row of an invoice starts where the one
\* before it ended, and the first from no row at all.
THEOREM HistoryIsChain == ASSUME OneAtATime PROVE Spec => []HistoryChain
  BY Inv7Always, PTL DEF Inv7

\* One command at a time: a paid or voided invoice never changes again.
THEOREM TerminalIsFinal == ASSUME OneAtATime PROVE Spec => TerminalForGood
  <1>1. ASSUME Base, Inv7, [Next]_vars, NEW i \in Invoices, row[i].state \in Terminal
        PROVE  row'[i] = row[i]
    <2>1. ASSUME NEW w \in Workers, Committed(w) PROVE row'[i] = row[i]
      <3>1. from[w] = row[req[w].inv].state
            /\ CommandEdge(req[w].cmd, from[w], next[w].state)
        BY <1>1, <2>1 DEF Inv7, Undisturbed, Committed, Pending, Prepared,
                          Base, Inv1, WorkersOK, WorkerOK
      <3>2. req[w].inv # i
        BY <1>1, <3>1 DEF CommandEdge, Terminal, Payable
      <3> QED BY <1>1, <2>1, <3>2, CommittedFacts DEF Base
    <2> QED BY <1>1, <2>1, StepCases DEF Base
  <1>2. Base /\ Inv7 /\ [Next]_vars =>
          [\A i \in Invoices : row[i].state \in Terminal => row'[i] = row[i]]_vars
    BY <1>1
  <1> QED BY <1>2, BaseAlways, Inv7Always, PTL DEF Spec, TerminalForGood
-----------------------------------------------------------------------------
(* Numbers *)

\* The clock never goes back.
LEMMA ClockStep == ASSUME Inv1, [Next]_vars PROVE clock <= clock'
  <1>0. clock \in Nat
    BY ConstantsAssumption DEF Inv1, TypeOK, Instants
  <1>1. CASE UNCHANGED vars \/ Tick
    BY <1>0, <1>1 DEF Tick
  <1>2. ASSUME NEW w \in Workers, Start(w) PROVE clock' = clock
    BY <1>2 DEF Start, StartDraft, StartIssue, StartSend, StartView, StartPay, StartVoid, Begin
  <1>3. ASSUME NEW w \in Workers, Read(w) PROVE clock' = clock
    BY <1>3, ReadLocal
  <1>4. ASSUME NEW w \in Workers, Write(w) PROVE clock' = clock
    BY <1>4, WriteCases DEF Committed
  <1>5. ASSUME NEW w \in Workers,
               Fail(w) \/ IssueCount(w) \/ WriteSink(w) \/ Publish(w) \/ Dispatch(w)
        PROVE  clock' = clock
    BY <1>5 DEF Fail, IssueCount, WriteSink, Publish, Dispatch
  <1> QED BY <1>0, <1>1, <1>2, <1>3, <1>4, <1>5 DEF Next

\* The count of a year is a natural number, as is that of its numbered invoices.
LEMMA Counts ==
    ASSUME NEW y
    PROVE  /\ IsFiniteSet(NumberedIn(y)) /\ Cardinality(NumberedIn(y)) \in Nat
           /\ IsFiniteSet(IssuedIn(y)) /\ CountIssued(y) \in Nat
  <1>1. NumberedIn(y) \in SUBSET Invoices /\ IssuedIn(y) \in SUBSET Invoices
    BY DEF NumberedIn, IssuedIn
  <1>2. IsFiniteSet(NumberedIn(y)) /\ IsFiniteSet(IssuedIn(y))
    BY <1>1, FS_Subset, ConstantsAssumption
  <1> QED BY <1>2, FS_CardinalityType DEF CountIssued

\* Dates are kept as time passes and rows are copied.
LEMMA DatedStep == ASSUME Inv1, Inv1', Inv2, AllDated, [Next]_vars PROVE AllDated'
  <1>0. clock \in Nat /\ clock' \in Nat /\ clock <= clock' /\ clock \in Instants
    BY ClockStep, ConstantsAssumption DEF Inv1, TypeOK, Instants
  <1>1. ASSUME NEW r, Dated(r) PROVE Dated(r)'
    BY <1>0, <1>1 DEF Dated, Instants
  <1>2. ASSUME NEW w \in Workers, Committed(w), Others(w) PROVE AllDated'
    <2>1. Pending(w) /\ clock' = clock /\ req[w].inv \in Invoices
      BY <1>2, CommittedFacts DEF Committed, Pending
    <2>2. ASSUME NEW i \in Invoices PROVE Dated(row[i])'
      <3>1. row'[i] = row[i] \/ row'[i] = next[w]
        BY <1>2, CommittedFacts
      <3> QED BY <2>1, <3>1 DEF AllDated, Dated
    <2>3. ASSUME NEW v \in Workers, Pending(v)' PROVE Dated(next[v])'
      BY <1>2, <2>1, <2>3 DEF Others, Kept, Committed, Pending, Inv1, TypeOK, AllDated, Dated
    <2> QED BY <2>2, <2>3 DEF AllDated
  <1>3. ASSUME UNCHANGED dbVars, \A v \in Workers : LocalStep(v) PROVE AllDated'
    <2>1. ASSUME NEW i \in Invoices PROVE Dated(row[i])'
      BY <1>0, <1>3 DEF AllDated, Dated, Instants
    <2>2. ASSUME NEW v \in Workers, Pending(v)' PROVE Dated(next[v])'
      <3>1. CASE Pending(v) /\ next'[v] = next[v]
        BY <1>0, <3>1 DEF AllDated, Dated, Instants
      <3>2. CASE Snapshot(v)
        <4> DEFINE s == row[req[v].inv]
        <4>1. s \in Row /\ Dated(s) /\ req[v].amount \in Nat
          BY <3>2 DEF Snapshot, Inv1, TypeOK, WorkersOK, WorkerOK, Request, AllDated
        <4>2. next'[v].number = s.number /\ next'[v].issuedAt = s.issuedAt
          BY <3>2, <4>1 DEF Snapshot, Row, SendUpdated, ViewUpdated, PayUpdated, VoidUpdated
        <4> HIDE DEF s
        <4> QED BY <1>0, <4>1, <4>2 DEF Dated, Instants
      <3>3. CASE Drafting(v)
        BY <3>3 DEF Drafting, NoRow, Dated
      <3>4. CASE Counting(v)
        <4>1. next[v] \in Row BY DEF Inv1, TypeOK
        <4>2. next'[v].number = NextNumber /\ next'[v].issuedAt = clock
          BY <3>4, <4>1 DEF Counting, Row
        <4>3. NextNumber.year = YearOf[clock]
          BY DEF NextNumber
        <4> QED BY <1>0, <4>2, <4>3 DEF Dated
      <3>5. CASE Writing(v)
        BY <3>1, <3>5 DEF Writing, Kept, Pending
      <3> QED BY <1>3, <2>2, <3>1, <3>2, <3>3, <3>4, <3>5 DEF LocalStep, Kept, Pending
    <2> QED BY <2>1, <2>2 DEF AllDated
  <1> QED BY <1>2, <1>3, StepCases

\* What is counted for the current year carries a number of it: an issue in the
\* first second of a year counts for the year before, which is over.
LEMMA CountedIsNumbered ==
    ASSUME Inv1, Inv2, AllDated PROVE IssuedIn(YearOf[clock]) \subseteq NumberedIn(YearOf[clock])
  <1>1. SUFFICES ASSUME NEW i \in Invoices, row[i].issuedAt # 0,
                        CountedYear(row[i].issuedAt) = YearOf[clock]
                 PROVE  row[i].number.year = YearOf[clock]
    BY DEF IssuedIn, NumberedIn
  <1> DEFINE t == row[i].issuedAt
  <1>2. row[i].number # NoNumber
    BY <1>1 DEF Inv2, RowCoherent, Coherent
  <1>3. t \in Instants /\ t <= clock /\ row[i].number.year = YearOf[t] /\ clock \in Instants
    BY <1>2 DEF AllDated, Dated, Inv1, TypeOK
  <1>4. YearOf[t] <= YearOf[clock] /\ YearOf[t] \in Nat /\ YearOf[clock] \in Nat
    BY <1>3, ConstantsAssumption
  <1>5. t \notin FirstSecond
    BY <1>1, <1>4 DEF CountedYear
  <1> QED BY <1>1, <1>3, <1>5 DEF CountedYear

Inv8 == NumbersDense /\ NumberInReach

\* A transaction that is not an issue leaves every number as it was.
LEMMA NumbersKept ==
    ASSUME Base, Inv7, Inv8, NEW w \in Workers, Committed(w), req[w].cmd # "issue",
           \A v \in Workers : ~Pending(v)'
    PROVE  Inv8'
  <1>1. next[w].number = row[req[w].inv].number
    BY DEF Inv7, Undisturbed, Committed, Pending
  <1>2. \A i \in Invoices : row'[i].number = row[i].number
    BY <1>1, CommittedFacts DEF Base
  <1>3. ASSUME NEW y PROVE NumberedIn(y)' = NumberedIn(y)
    BY <1>2 DEF NumberedIn
  <1>4. ASSUME NEW y
        PROVE  {row'[i].number.n : i \in NumberedIn(y)} = {row[i].number.n : i \in NumberedIn(y)}
    BY <1>2 DEF NumberedIn
  <1>5. NumbersDense'
    BY <1>3, <1>4 DEF Inv8, NumbersDense
  <1>6. NumberInReach'
    BY DEF NumberInReach, Pending
  <1> QED BY <1>5, <1>6 DEF Inv8

\* An issue that commits takes the first free number of its year.
LEMMA NumbersExtended ==
    ASSUME Base, Inv7, Inv8, AllDated, NEW w \in Workers, Committed(w), req[w].cmd = "issue",
           \A v \in Workers : ~Pending(v)'
    PROVE  Inv8'
  <1> DEFINE k == req[w].inv
             new == next[w].number
             size(y) == Cardinality(NumberedIn(y))
             image(y) == {row[i].number.n : i \in NumberedIn(y)}
  <1>1. /\ k \in Invoices /\ row'[k] = next[w] /\ \A i \in Invoices \ {k} : row'[i] = row[i]
        /\ row \in [Invoices -> Row] /\ next[w] \in Row
    BY CommittedFacts DEF Base, Inv1, TypeOK
  <1>2. row[k].number = NoNumber /\ new # NoNumber /\ new.year \in {YearOf[t] : t \in Instants}
    <2>1. from[w] = "Draft" /\ next[w].state = "Issued" /\ row[k].state = from[w]
      BY DEF Base, Inv1, WorkersOK, WorkerOK, Prepared, Committed, CommandEdge,
             Inv7, Undisturbed, Pending
    <2>2. Coherent(row[k]) /\ Coherent(next[w]) /\ Dated(next[w])
      BY <1>1 DEF Base, Inv2, RowCoherent, PendingCoherent, Committed, AllDated, Pending
    <2> QED BY <2>1, <2>2 DEF Coherent, Dated
  <1>3. /\ \A j \in Invoices \ {k} : row[j].number # new
        /\ new.n \in 1..(size(new.year) + 1)
    BY <1>2 DEF Committed, UniqueColumns, Inv8, NumberInReach
  <1>4. new \in NumberVal /\ \A i \in Invoices : row[i].number \in NumberVal
    BY <1>1 DEF Row
  <1>5. new.year # 0
    BY <1>2, ConstantsAssumption
  <1>6. k \notin NumberedIn(new.year)
    BY <1>2, <1>5 DEF NumberedIn, NoNumber
  <1>7. image(new.year) = 1..size(new.year) /\ size(new.year) \in Nat
    BY <1>2, Counts DEF Inv8, NumbersDense
  <1>8. new.n \notin image(new.year)
    <2>1. ASSUME NEW j \in NumberedIn(new.year) PROVE row[j].number.n # new.n
      <3>1. j \in Invoices \ {k} /\ row[j].number.year = new.year
        BY <1>6 DEF NumberedIn
      <3>2. row[j].number \in NumberVal /\ row[j].number # new
        BY <1>3, <1>4, <3>1
      <3> QED BY <1>4, <3>1, <3>2 DEF NumberVal
    <2> QED BY <2>1
  <1>9. new.n = size(new.year) + 1
    BY <1>3, <1>7, <1>8
  <1>10. ASSUME NEW y, y = new.year PROVE NumberedIn(y)' = NumberedIn(y) \union {k}
    <2>1. row'[k].number.year = y /\ k \in Invoices
      BY <1>1, <1>10
    <2>2. \A i \in Invoices \ {k} : row'[i].number.year = row[i].number.year
      BY <1>1
    <2>3. NumberedIn(y)' = {i \in Invoices : row'[i].number.year = y}
      BY DEF NumberedIn
    <2> HIDE DEF k, new
    <2> QED BY <2>1, <2>2, <2>3 DEF NumberedIn
  <1>11. ASSUME NEW y, y = new.year PROVE Cardinality(NumberedIn(y)') = size(y) + 1
    BY <1>6, <1>10, <1>11, Counts, FS_AddElement
  <1>12. {row'[i].number.n : i \in NumberedIn(new.year) \union {k}}
           = image(new.year) \union {new.n}
    <2>1. \A i \in NumberedIn(new.year) : row'[i] = row[i]
      BY <1>1, <1>6 DEF NumberedIn
    <2> QED BY <1>1, <2>1
  <1>13. ASSUME NEW y \in {YearOf[t] : t \in Instants}
         PROVE  {row'[i].number.n : i \in NumberedIn(y)'} = 1..Cardinality(NumberedIn(y)')
    <2>1. CASE y = new.year
      <3>1. image(y) \union {new.n} = 1..(size(y) + 1)
        BY <1>7, <1>9, <2>1
      <3>2. NumberedIn(y)' = NumberedIn(y) \union {k} /\ Cardinality(NumberedIn(y)') = size(y) + 1
        BY <1>10, <1>11, <2>1
      <3>3. {row'[i].number.n : i \in NumberedIn(y) \union {k}} = image(y) \union {new.n}
        BY <1>12, <2>1
      <3> HIDE DEF k, new, size, image
      <3> QED BY <3>1, <3>2, <3>3
    <2>2. CASE y # new.year
      <3>0. y # 0
        BY ConstantsAssumption
      <3>1. k \notin NumberedIn(y)
        BY <1>2, <3>0 DEF NumberedIn, NoNumber
      <3>2. NumberedIn(y)' = NumberedIn(y)
        BY <1>1, <2>2, <3>1 DEF NumberedIn
      <3>3. \A i \in NumberedIn(y) : row'[i] = row[i]
        BY <1>1, <3>1 DEF NumberedIn
      <3>4. {row'[i].number.n : i \in NumberedIn(y)} = image(y)
        BY <3>3
      <3>5. image(y) = 1..Cardinality(NumberedIn(y))
        BY DEF Inv8, NumbersDense
      <3> QED BY <3>2, <3>4, <3>5
    <2> QED BY <2>1, <2>2
  <1>14. NumbersDense'
    BY <1>13 DEF NumbersDense
  <1>15. NumberInReach'
    BY DEF NumberInReach, Pending
  <1> QED BY <1>14, <1>15 DEF Inv8

LEMMA Inv8Step ==
    ASSUME OneAtATime, Base, Base', AllDated, Inv7, Inv8, [Next]_vars PROVE Inv8'
  <1>1. ASSUME UNCHANGED dbVars, \A v \in Workers : LocalStep(v) PROVE Inv8'
    <2>0. ASSUME NEW y PROVE NumberedIn(y)' = NumberedIn(y)
      BY <1>1 DEF NumberedIn
    <2>1. NumbersDense'
      BY <1>1, <2>0 DEF Inv8, NumbersDense
    <2>2. ASSUME NEW v \in Workers, req'[v].cmd = "issue", pc'[v] = "commit"
          PROVE  next'[v].number.n \in 1..(Cardinality(NumberedIn(next'[v].number.year)) + 1)
      <3>1. CASE pc'[v] = pc[v] /\ Kept(v)
        BY <2>2, <3>1 DEF Kept, Inv8, NumberInReach
      <3>2. CASE Counting(v)
        <4>1. next'[v].number = NextNumber
          BY <3>2 DEF Counting, Base, Inv1, TypeOK, Row
        <4>2. CountIssued(YearOf[clock]) <= Cardinality(NumberedIn(YearOf[clock]))
          BY CountedIsNumbered, Counts, FS_Subset DEF Base, CountIssued
        <4>3. /\ Cardinality(NumberedIn(YearOf[clock])) \in Nat
              /\ CountIssued(YearOf[clock]) \in Nat
          BY Counts
        <4> QED BY <4>1, <4>2, <4>3 DEF NextNumber
      <3>3. ~Snapshot(v) /\ ~Drafting(v) /\ ~Writing(v)
        BY <2>2 DEF Snapshot, Drafting, Writing, Kept, Base, Inv1, WorkersOK, WorkerOK
      <3> QED BY <1>1, <2>2, <3>1, <3>2, <3>3 DEF LocalStep
    <2>3. NumberInReach'
      BY <2>0, <2>2 DEF NumberInReach
    <2> QED BY <2>1, <2>3 DEF Inv8
  <1> QED BY <1>1, NumbersKept, NumbersExtended, AloneCases DEF Base

\* One command at a time: the numbers of a year are 1, 2, 3, ... without a gap,
\* at every turn of the year and also after an issue in a year's first second,
\* which issue_invoice counts for the wrong year.
THEOREM NumbersAreDense == ASSUME OneAtATime PROVE Spec => []NumbersDense
  <1>1. Init => AllDated
    BY DEF Init, AllDated, Dated, NoRow, Pending
  <1>2. Base /\ Base' /\ AllDated /\ [Next]_vars => AllDated'
    BY DatedStep DEF Base
  <1>3. Spec => []AllDated
    BY <1>1, <1>2, BaseAlways, PTL DEF Spec
  <1>4. Init => Inv8
    <2>1. SUFFICES ASSUME Init PROVE Inv8 OBVIOUS
    <2>2. ASSUME NEW y \in {YearOf[t] : t \in Instants} PROVE NumberedIn(y) = {}
      BY <2>1, ConstantsAssumption DEF Init, NumberedIn, NoRow, NoNumber
    <2>3. NumbersDense
      BY <2>2, FS_EmptySet DEF NumbersDense
    <2>4. NumberInReach
      BY <2>1 DEF Init, NumberInReach
    <2> QED BY <2>3, <2>4 DEF Inv8
  <1>5. Base /\ Base' /\ AllDated /\ Inv7 /\ Inv8 /\ [Next]_vars => Inv8'
    BY Inv8Step
  <1>6. Spec => []Inv8
    BY <1>3, <1>4, <1>5, BaseAlways, Inv7Always, PTL DEF Spec
  <1> QED BY <1>6, PTL DEF Inv8
-----------------------------------------------------------------------------
(* Refinement: one command at a time, a command is one posting *)

\* A request keeps the amount it was started with.
LEMMA RequestsStep == ASSUME Inv1, RequestsGiven, [Next]_vars PROVE RequestsGiven'
  <1>1. ASSUME UNCHANGED req PROVE RequestsGiven'
    BY <1>1 DEF RequestsGiven
  <1>2. ASSUME NEW w \in Workers, Finish(w) PROVE RequestsGiven'
    <2>1. req' = [req EXCEPT ![w] = NoRequest] /\ req \in [Workers -> Request]
      BY <1>2 DEF Finish, Inv1, TypeOK
    <2>2. NoRequest.cmd = "none"
      BY DEF NoRequest
    <2> QED BY <2>1, <2>2 DEF RequestsGiven
  <1>3. ASSUME NEW w \in Workers, Start(w) PROVE RequestsGiven'
    <2>1. ASSUME NEW r, NEW step, Begin(w, r, step),
                 r.cmd = "draft" => r.amount \in Subtotals,
                 r.cmd = "pay" => r.amount \in Amounts
          PROVE  RequestsGiven'
      <3>1. req' = [req EXCEPT ![w] = r] /\ req \in [Workers -> Request]
        BY <2>1 DEF Begin, Inv1, TypeOK
      <3> QED BY <2>1, <3>1 DEF RequestsGiven
    <2>2. CASE StartDraft(w)
      <3>1. PICK i \in Invoices, k \in KeyOpt, a \in Subtotals :
              Begin(w, Cmd("draft", i, k, a, "none"), "lookup")
        BY <2>2 DEF StartDraft
      <3> QED BY <2>1, <3>1 DEF Cmd
    <2>3. CASE StartPay(w)
      <3>1. PICK i \in Invoices, k \in KeyOpt, a \in Amounts :
              Begin(w, Cmd("pay", i, k, a, "none"), "load")
        BY <2>3 DEF StartPay
      <3> QED BY <2>1, <3>1 DEF Cmd
    <2>4. CASE StartSend(w)
      <3>1. PICK i \in Invoices, k \in KeyOpt, d \in Dests :
              Begin(w, Cmd("send", i, k, 0, d), IF k = NoKey THEN "load" ELSE "lookup")
        BY <2>4 DEF StartSend
      <3> QED BY <2>1, <3>1 DEF Cmd
    <2>5. CASE StartIssue(w) \/ StartView(w) \/ StartVoid(w)
      <3>1. PICK c \in {"issue", "view", "void"}, i \in Invoices :
              Begin(w, Cmd(c, i, NoKey, 0, "none"), "load")
        BY <2>5 DEF StartIssue, StartView, StartVoid
      <3> QED BY <2>1, <3>1 DEF Cmd
    <2> QED BY <1>3, <2>2, <2>3, <2>4, <2>5 DEF Start
  <1>4. ASSUME NEW w \in Workers, Read(w) PROVE Finish(w) \/ UNCHANGED req
    BY <1>4 DEF Read, DraftLookup, SendLookup, IssueLoad, SendLoad, ViewLoad, PayLoad,
                VoidLoad, Load
  <1>5. ASSUME NEW w \in Workers, Write(w) PROVE Finish(w) \/ UNCHANGED req
    BY <1>5, WriteCases DEF Committed
  <1>6. ASSUME NEW w \in Workers,
               Fail(w) \/ IssueCount(w) \/ WriteSink(w) \/ Publish(w) \/ Dispatch(w)
        PROVE  Finish(w) \/ UNCHANGED req
    BY <1>6 DEF Fail, IssueCount, WriteSink, Publish, Dispatch
  <1>7. CASE UNCHANGED vars \/ Tick
    BY <1>1, <1>7 DEF Tick
  <1> QED BY <1>1, <1>2, <1>3, <1>4, <1>5, <1>6, <1>7 DEF Next

\* The total that a worker prepares is its command's operation on the row.
LEMMA PostingLocal ==
    ASSUME Base, PendingPosting, UNCHANGED dbVars, NEW v \in Workers, LocalStep(v), Pending(v)'
    PROVE  Posting(v)'
  <1> DEFINE s == row[req[v].inv]
  <1>1. CASE pc'[v] = pc[v] /\ Kept(v)
    BY <1>1 DEF Kept, Pending, PendingPosting, Posting
  <1>2. CASE Snapshot(v)
    <2>1. s \in Row /\ req[v].amount \in Nat /\ req'[v] = req[v]
      BY <1>2 DEF Snapshot, Base, Inv1, TypeOK, WorkersOK, WorkerOK, Request
    <2>2. next'[v].total = s.total
      BY <1>2, <2>1 DEF Snapshot, Row, SendUpdated, ViewUpdated, PayUpdated, VoidUpdated
    <2>3. req[v].cmd # "draft" /\ ~(req[v].cmd = "issue" /\ pc'[v] = "commit")
      BY <1>2 DEF Snapshot
    <2> QED BY <2>1, <2>2, <2>3 DEF Posting
  <1>3. CASE Drafting(v)
    <2>1. req'[v] = req[v] /\ req[v].cmd = "draft" /\ next'[v].total = req[v].amount
      BY <1>3 DEF Drafting, NoRow
    <2> QED BY <2>1 DEF Posting
  <1>4. CASE Counting(v)
    <2>1. req[v].cmd = "issue" /\ Pending(v) /\ pc[v] = "count" /\ pc'[v] = "commit"
          /\ req'[v] = req[v] /\ next[v] \in Row
      BY <1>4 DEF Counting, Pending, Base, Inv1, TypeOK, WorkersOK, WorkerOK
    <2>2. next[v].total = s.total
      BY <2>1 DEF PendingPosting, Posting
    <2>3. \E tax \in Taxes : next'[v].total = next[v].total + tax
      BY <1>4, <2>1 DEF Counting, Row
    <2> QED BY <2>1, <2>2, <2>3 DEF Posting
  <1>5. CASE Writing(v)
    <2>1. req'[v] = req[v] /\ next'[v] = next[v] /\ Pending(v) /\ req[v].cmd = "send"
      BY <1>5 DEF Writing, Kept, Pending, Base, Inv1, WorkersOK, WorkerOK
    <2> QED BY <2>1 DEF PendingPosting, Posting
  <1>6. CASE pc'[v] \in {"idle", "lookup", "load", "dispatch"}
    BY <1>6 DEF Pending
  <1> QED BY <1>1, <1>2, <1>3, <1>4, <1>5, <1>6 DEF LocalStep

LEMMA PostingStep == ASSUME OneAtATime, Base, PendingPosting, [Next]_vars PROVE PendingPosting'
  <1>1. ASSUME UNCHANGED dbVars, \A v \in Workers : LocalStep(v) PROVE PendingPosting'
    BY <1>1, PostingLocal DEF PendingPosting
  <1>2. ASSUME \A v \in Workers : ~Pending(v)' PROVE PendingPosting'
    BY <1>2 DEF PendingPosting
  <1> QED BY <1>1, <1>2, AloneCases DEF Base

Inv9 == Inv7 /\ PendingPosting /\ RequestsGiven

LEMMA Inv9Always == ASSUME OneAtATime PROVE Spec => []Inv9
  <1>1. Init => PendingPosting /\ RequestsGiven
    BY DEF Init, PendingPosting, RequestsGiven, Pending, NoRequest
  <1>2. Base /\ PendingPosting /\ RequestsGiven /\ [Next]_vars => PendingPosting' /\ RequestsGiven'
    BY PostingStep, RequestsStep DEF Base
  <1> QED BY <1>1, <1>2, BaseAlways, Inv7Always, PTL DEF Spec, Inv9

LEMMA StatusFacts ==
    /\ StatusOf("Absent") = "none" /\ StatusOf("Draft") = "draft"
    /\ StatusOf("Issued") = "open" /\ StatusOf("Sent") = "open" /\ StatusOf("Viewed") = "open"
    /\ StatusOf("PartiallyPaid") = "open"
    /\ StatusOf("Paid") = "settled" /\ StatusOf("Voided") = "void"
  BY DEF StatusOf, Payable

\* A transaction posts on the account of its invoice and on no other.
LEMMA CommitPosts ==
    ASSUME Base, Inv9, NEW w \in Workers, Committed(w)
    PROVE  LET k == req[w].inv
           IN  /\ k \in Invoices /\ next[w] \in Row /\ row[k] \in Row /\ receipts[k] \in Nat
               /\ req[w].amount \in Nat
               /\ Books[k] = [status |-> StatusOf(row[k].state), due |-> row[k].total,
                              received |-> receipts[k]]
               /\ Books' = [Books EXCEPT ![k] =
                              [status |-> StatusOf(next[w].state), due |-> next[w].total,
                               received |-> IF req[w].cmd = "pay" THEN receipts[k] + req[w].amount
                                            ELSE receipts[k]]]
  <1> DEFINE k == req[w].inv
             amount == IF req[w].cmd = "pay" THEN receipts[k] + req[w].amount ELSE receipts[k]
  <1>1. /\ k \in Invoices /\ next[w] \in Row /\ row[k] \in Row /\ receipts \in [Invoices -> Nat]
        /\ req[w].amount \in Nat
        /\ row'[k] = next[w] /\ \A i \in Invoices \ {k} : row'[i] = row[i]
    BY CommittedFacts DEF Base, Inv1, TypeOK, Request
  <1>2. receipts' = [receipts EXCEPT ![k] = amount]
    BY DEF Committed
  <1> HIDE DEF k, amount
  <1>3. receipts'[k] = amount /\ \A i \in Invoices \ {k} : receipts'[i] = receipts[i]
    BY <1>1, <1>2
  <1>4. Books' = [Books EXCEPT ![k] = [status |-> StatusOf(next[w].state), due |-> next[w].total,
                                       received |-> amount]]
    BY <1>1, <1>3, Zenon DEF Books
  <1>5. Books[k] = [status |-> StatusOf(row[k].state), due |-> row[k].total,
                    received |-> receipts[k]]
    BY <1>1 DEF Books
  <1> QED BY <1>1, <1>4, <1>5 DEF k, amount

\* Each transaction is the posting of its command, a send or a view none.
LEMMA CommitRefines ==
    ASSUME Base, Inv9, NEW w \in Workers, Committed(w)
    PROVE  Accounts!Next \/ UNCHANGED Books
  <1> DEFINE k == req[w].inv
             a == req[w].amount
             s == row[k]
             n == next[w]
  <1>1. /\ k \in Invoices /\ n \in Row /\ s \in Row /\ receipts[k] \in Nat /\ a \in Nat
        /\ Books[k] = [status |-> StatusOf(s.state), due |-> s.total, received |-> receipts[k]]
        /\ Books' = [Books EXCEPT ![k] =
                       [status |-> StatusOf(n.state), due |-> n.total,
                        received |-> IF req[w].cmd = "pay" THEN receipts[k] + a ELSE receipts[k]]]
    BY CommitPosts
  <1>2. /\ from[w] = s.state /\ s.paid = receipts[k]
        /\ n.paid = s.paid + (IF req[w].cmd = "pay" THEN a ELSE 0)
    BY <1>1 DEF Inv9, Inv7, Undisturbed, LedgerExact, Committed, Pending
  <1>3. CommandEdge(req[w].cmd, s.state, n.state)
    BY <1>2 DEF Base, Inv1, WorkersOK, WorkerOK, Prepared, Committed
  <1>4. Posting(w) /\ pc[w] = "commit"
    BY DEF Inv9, PendingPosting, Committed, Pending
  <1>5. Coherent(s) /\ Coherent(n)
    BY <1>1, <1>4 DEF Base, Inv2, RowCoherent, PendingCoherent
  <1>6. n.total \in Nat /\ s.total \in Nat /\ n.paid \in Nat /\ s.paid \in Nat
    BY <1>1 DEF Row
  <1> HIDE DEF k, s, n, a
  <1>7. CASE req[w].cmd = "draft"
    <2>1. s.state = "Absent" /\ n.state = "Draft"
      BY <1>3, <1>7 DEF CommandEdge
    <2>2. s.paid = 0
      BY <1>5, <2>1 DEF Coherent, NoRow
    <2>3. n.total \in Subtotals
      BY <1>4, <1>7 DEF Posting, Inv9, RequestsGiven, n
    <2>4. Books[k].status = "none" /\ Books' = [Books EXCEPT ![k] =
             [status |-> "draft", due |-> n.total, received |-> 0]]
      <3>1. receipts[k] = 0 /\ StatusOf(s.state) = "none" /\ StatusOf(n.state) = "draft"
        BY <1>2, <2>1, <2>2, StatusFacts
      <3> QED BY <1>1, <1>7, <3>1
    <2>5. Accounts!Draft(k, n.total)
      BY <2>4 DEF Accounts!Draft, Accounts!Post
    <2> QED BY <1>1, <2>3, <2>5 DEF Accounts!Next
  <1>8. CASE req[w].cmd = "issue"
    <2>1. s.state = "Draft" /\ n.state = "Issued"
      BY <1>3, <1>8 DEF CommandEdge
    <2>2. s.paid = 0
      BY <1>5, <2>1 DEF Coherent
    <2>3. PICK tax \in Taxes : n.total = s.total + tax
      BY <1>4, <1>8 DEF Posting, n, s, k
    <2>4. Books[k].status = "draft" /\ Books[k].due = s.total /\ Books' = [Books EXCEPT ![k] =
             [status |-> "open", due |-> n.total, received |-> 0]]
      <3>1. receipts[k] = 0 /\ StatusOf(s.state) = "draft" /\ StatusOf(n.state) = "open"
        BY <1>2, <2>1, <2>2, StatusFacts
      <3> QED BY <1>1, <1>8, <3>1
    <2>5. Accounts!Issue(k, tax)
      BY <2>3, <2>4 DEF Accounts!Issue, Accounts!Post
    <2> QED BY <1>1, <2>5 DEF Accounts!Next
  <1>9. CASE req[w].cmd \in {"send", "view"}
    <2>1. s.state \in Payable /\ n.state \in Payable
      BY <1>3, <1>9 DEF CommandEdge, Payable
    <2>2. n.total = s.total
      BY <1>4, <1>9 DEF Posting, n, s, k
    <2>3. StatusOf(n.state) = StatusOf(s.state)
      BY <2>1, StatusFacts DEF Payable
    <2>4. Books' = [Books EXCEPT ![k] = Books[k]]
      BY <1>1, <1>9, <2>2, <2>3
    <2>5. Books = [i \in Invoices |-> Books[i]]
      BY DEF Books
    <2> QED BY <2>4, <2>5
  <1>10. CASE req[w].cmd = "pay"
    <2>1. s.state \in Payable /\ n.state \in {"PartiallyPaid", "Paid"}
      BY <1>3, <1>10 DEF CommandEdge
    <2>2. n.total = s.total
      BY <1>4, <1>10 DEF Posting, n, s, k
    <2>3. a \in Amounts /\ a > 0
      BY <1>10 DEF Inv9, RequestsGiven, Base, Inv1, WorkersOK, WorkerOK, a
    <2>4. n.state = IF receipts[k] + a >= s.total THEN "Paid" ELSE "PartiallyPaid"
      BY <1>1, <1>2, <1>5, <1>6, <1>10, <2>1, <2>2 DEF Coherent
    <2>5. StatusOf(s.state) = "open"
          /\ StatusOf(n.state) = IF receipts[k] + a >= s.total THEN "settled" ELSE "open"
      BY <2>1, <2>4, StatusFacts DEF Payable
    <2>6. /\ Books[k].status = "open" /\ Books[k].due = s.total /\ Books[k].received = receipts[k]
          /\ Books' = [Books EXCEPT ![k] =
               [status |-> IF receipts[k] + a >= s.total THEN "settled" ELSE "open",
                due |-> s.total, received |-> receipts[k] + a]]
      BY <1>1, <1>10, <2>2, <2>5
    <2>7. Accounts!Receive(k, a)
      BY <2>3, <2>6 DEF Accounts!Receive, Accounts!Post
    <2> QED BY <1>1, <2>3, <2>7 DEF Accounts!Next
  <1>11. CASE req[w].cmd = "void"
    <2>1. s.state \in Payable /\ n.state = "Voided"
      BY <1>3, <1>11 DEF CommandEdge
    <2>2. n.total = s.total
      BY <1>4, <1>11 DEF Posting, n, s, k
    <2>3. StatusOf(s.state) = "open" /\ StatusOf(n.state) = "void"
      BY <2>1, StatusFacts DEF Payable
    <2>4. /\ Books[k].status = "open" /\ Books[k].due = s.total /\ Books[k].received = receipts[k]
          /\ Books' = [Books EXCEPT ![k] =
               [status |-> "void", due |-> s.total, received |-> receipts[k]]]
      BY <1>1, <1>11, <2>2, <2>3
    <2>5. Accounts!Void(k)
      BY <2>4 DEF Accounts!Void, Accounts!Post
    <2> QED BY <1>1, <2>5 DEF Accounts!Next
  <1> QED BY <1>3, <1>7, <1>8, <1>9, <1>10, <1>11 DEF CommandEdge

\* One command at a time: the commands keep the accounts that Receivables
\* describes, whatever fails, is repeated or passes between a command's steps.
THEOREM CommandsPost == ASSUME OneAtATime PROVE Spec => AccountsKept
  <1>1. Init => Accounts!Init
    BY StatusFacts DEF Init, Accounts!Init, Accounts!NoAccount, Books, NoRow
  <1>2. Base /\ Inv9 /\ [Next]_vars => [Accounts!Next]_Books
    <2>1. ASSUME Base, [Next]_vars PROVE (\E w \in Workers : Committed(w)) \/ UNCHANGED dbVars
      BY <2>1, StepCases DEF Base
    <2>2. ASSUME UNCHANGED dbVars PROVE UNCHANGED Books
      BY <2>2 DEF Books
    <2> QED BY <2>1, <2>2, CommitRefines
  <1> QED BY <1>1, <1>2, BaseAlways, Inv9Always, PTL DEF Spec, AccountsKept, Accounts!Spec
=============================================================================
