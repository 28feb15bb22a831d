-------------------------- MODULE BusConsumerProofs --------------------------
(***************************************************************************)
(* Credit notes and inbound events, for any number of events, receivers,   *)
(* notes and requests.  The notes come first: their steps are the same     *)
(* whether a request or a refund event creates a note.  Then the inbox: the*)
(* receiver whose insert succeeded owns the event until it is done with it.*)
(***************************************************************************)
EXTENDS BusConsumer, FiniteSetTheorems, SequenceTheorems, TLAPS

USE DEF noteVars, busVars, vars

NotesInv == NotesTypeOK /\ NotesShape /\ NotesCounted /\ NoteNumbersDense

(* Sets of notes *)

LEMMA NoteFacts ==
    ASSUME NotesTypeOK
    PROVE  /\ Len(notes) \in Nat /\ DOMAIN notes = 1..Len(notes) /\ DOMAIN trail = 1..Len(notes)
           /\ \A n \in DOMAIN notes : notes[n] \in Note /\ trail[n] \in Seq(NoteHistoryRow)
  BY DEF NotesTypeOK

LEMMA NotesFinite ==
    ASSUME NotesTypeOK, NEW S \in SUBSET DOMAIN notes
    PROVE  IsFiniteSet(S) /\ Cardinality(S) \in Nat
  <1>1. DOMAIN notes = 1..Len(notes) /\ Len(notes) \in Nat
    BY NoteFacts
  <1>2. IsFiniteSet(DOMAIN notes)
    BY <1>1, FS_Interval
  <1> QED BY <1>2, FS_Subset, FS_CardinalityType

LEMMA NumberedFinite ==
    ASSUME NotesTypeOK, NEW y
    PROVE  /\ IsFiniteSet(NumberedNotes(y)) /\ Cardinality(NumberedNotes(y)) \in Nat
           /\ IsFiniteSet({n \in DOMAIN notes : notes[n].issuedAt # 0 /\ NoteYear(notes[n].issuedAt) = y})
           /\ CountNotes(y) \in Nat
  BY NotesFinite DEF NumberedNotes, CountNotes

\* The rows of a note's history that record an issue.
IssuesOf(n) == {i \in DOMAIN trail[n] : trail[n][i].to = "Issued"}

LEMMA IssuesFinite ==
    ASSUME NEW q \in Seq(NoteHistoryRow)
    PROVE  IsFiniteSet({i \in DOMAIN q : q[i].to = "Issued"})
  <1>1. DOMAIN q = 1..Len(q) /\ Len(q) \in Nat
    BY LenProperties
  <1>2. IsFiniteSet(DOMAIN q)
    BY <1>1, FS_Interval
  <1> QED BY <1>2, FS_Subset

LEMMA TwoElements ==
    ASSUME NEW S, IsFiniteSet(S), NEW a \in S, NEW b \in S, a # b PROVE Cardinality(S) > 1
  <1>1. IsFiniteSet({a}) /\ Cardinality({a}) = 1
    BY FS_Singleton
  <1>2. IsFiniteSet({a} \union {b}) /\ Cardinality({a} \union {b}) = 2
    BY <1>1, FS_AddElement
  <1>3. Cardinality({a} \union {b}) <= Cardinality(S) /\ Cardinality(S) \in Nat
    BY FS_Subset, FS_CardinalityType
  <1> QED BY <1>2, <1>3

(* Steps of the notes *)

\* Nothing but the clock and the requests changes.
LEMMA NotesStill ==
    ASSUME NotesInv, UNCHANGED <<notes, trail, issuer>>, clock' \in Instants,
           requests' \in 0..MaxRequests
    PROVE  NotesInv'
  <1>1. NotesTypeOK'
    BY DEF NotesInv, NotesTypeOK, IssuerOK
  <1>2. NotesShape'
    BY DEF NotesInv, NotesShape, IssuerSound
  <1>3. CountUpset' = CountUpset
    BY DEF CountUpset, IssuedTwice
  <1>4. \A y : NumberedNotes(y)' = NumberedNotes(y)
    BY DEF NumberedNotes
  <1>5. NoteNumbersDense'
    BY <1>3, <1>4 DEF NotesInv, NoteNumbersDense
  <1>6. ASSUME NEW w \in Workers PROVE NoteNumberInReach(w)'
    BY <1>3, <1>4 DEF NotesInv, NotesCounted, NoteNumberInReach, NumberedNotes
  <1>7. NotesCounted'
    BY <1>6 DEF NotesInv, NotesCounted, NoteCoherent
  <1> QED BY <1>1, <1>2, <1>5, <1>7 DEF NotesInv

LEMMA NotesInitInv == NotesInit => NotesInv
  <1> SUFFICES ASSUME NotesInit PROVE NotesInv
    OBVIOUS
  <1>1. NoNumber \in NumberVal /\ NewDraft(NoRef) \in Note
    BY DEF NoNumber, NumberVal, NewDraft, Note
  <1>2. NoIssue \in IssueVal /\ NoIssue.pc = "idle"
    BY <1>1 DEF NoIssue, IssueVal
  <1>3. NoIssue.row \in Note /\ NoIssue.number \in NumberVal
    BY <1>1 DEF NoIssue
  <1>4. \A w \in Workers : issuer[w] = NoIssue
    BY DEF NotesInit
  <1>5. \A w \in Workers : IssuerOK(w) /\ IssuerSound(w) /\ NoteNumberInReach(w)
    BY <1>2, <1>3, <1>4 DEF IssuerOK, IssuerSound, NoteNumberInReach
  <1>6. NotesTypeOK
    <2>1. notes \in Seq(Note) /\ Len(notes) = 0 /\ trail \in Seq(Seq(NoteHistoryRow)) /\ Len(trail) = 0
      BY DEF NotesInit
    <2>2. clock \in Instants /\ requests \in 0..MaxRequests /\ 0 <= MaxNotes
      BY CreditNoteAssumption DEF NotesInit, Instants
    <2> QED BY <1>5, <2>1, <2>2 DEF NotesTypeOK
  <1>7. NotesShape
    BY <1>2, <1>5 DEF NotesInit, NotesShape
  <1>8. DOMAIN notes = {}
    BY DEF NotesInit
  <1>9. NotesCounted
    BY <1>5, <1>8 DEF NotesCounted
  <1>10. NoteNumbersDense
    <2>1. \A y : NumberedNotes(y) = {}
      BY <1>8 DEF NumberedNotes
    <2> QED BY <2>1, FS_EmptySet DEF NoteNumbersDense
  <1> QED BY <1>6, <1>7, <1>9, <1>10 DEF NotesInv

\* A worker that does not move, while the notes only grow and change no ref.
LEMMA IssuerKept ==
    ASSUME NotesInv, NEW w \in Workers, issuer'[w] = issuer[w],
           \A n \in DOMAIN notes : n \in DOMAIN notes' /\ notes'[n].ref = notes[n].ref
    PROVE  IssuerOK(w)' /\ IssuerSound(w)'
  BY DEF NotesInv, NotesTypeOK, NotesShape, IssuerOK, IssuerSound

\* The years that count are not the year of NoNumber.
LEMMA YearFacts == \A y \in {YearOf[t] : t \in Instants} : y \in Nat /\ y # 0
  BY CreditNoteAssumption

LEMMA CreateNoteInv ==
    ASSUME NotesInv, NEW ref \in Refs \union {NoRef}, CreateNote(ref), requests' \in 0..MaxRequests
    PROVE  NotesInv'
  <1> DEFINE N == Len(notes) + 1
             new == NewDraft(ref)
             first == <<[from |-> "Absent", to |-> "Draft", at |-> clock, bus |-> ref]>>
  <1>1. /\ notes \in Seq(Note) /\ trail \in Seq(Seq(NoteHistoryRow)) /\ Len(trail) = Len(notes)
        /\ Len(notes) < MaxNotes /\ Len(notes) \in Nat /\ clock \in Instants
        /\ notes' = Append(notes, new) /\ trail' = Append(trail, first)
        /\ clock' = clock /\ issuer' = issuer
    BY DEF NotesInv, NotesTypeOK, CreateNote
  <1>2. new \in Note /\ new.number = NoNumber /\ new.issuedAt = 0 /\ new.state = "Draft" /\ new.ref = ref
    BY DEF NewDraft, Note, NoNumber, NumberVal
  <1>3. first \in Seq(NoteHistoryRow) /\ DOMAIN first = {1} /\ first[1].to = "Draft"
    <2>1. [from |-> "Absent", to |-> "Draft", at |-> clock, bus |-> ref] \in NoteHistoryRow
      BY <1>1 DEF NoteHistoryRow, Instants
    <2> QED BY <2>1
  <1> HIDE DEF new, first
  <1>4. /\ notes' \in Seq(Note) /\ Len(notes') = N /\ DOMAIN notes' = 1..N /\ DOMAIN notes = 1..Len(notes)
        /\ trail' \in Seq(Seq(NoteHistoryRow)) /\ Len(trail') = N
        /\ \A n \in DOMAIN notes : n \in DOMAIN notes' /\ notes'[n] = notes[n] /\ trail'[n] = trail[n]
        /\ notes'[N] = new /\ trail'[N] = first /\ N \in 1..N
        /\ \A n \in DOMAIN notes' : n \in DOMAIN notes \/ n = N
    BY <1>1, <1>2, <1>3
  <1>5. \A w \in Workers : IssuerOK(w)' /\ IssuerSound(w)'
    BY <1>1, <1>4, IssuerKept
  <1>6. NotesTypeOK'
    BY <1>1, <1>4, <1>5, CreditNoteAssumption DEF NotesTypeOK
  <1>7. NotesShape'
    BY <1>1, <1>5 DEF NotesInv, NotesShape
  <1>8. CountUpset => CountUpset'
    BY <1>4 DEF CountUpset, IssuedTwice
  <1>9. ASSUME NEW y, y # 0 PROVE NumberedNotes(y)' = NumberedNotes(y)
    <2>1. notes'[N].number.year # y
      BY <1>2, <1>4, <1>9 DEF NoNumber
    <2> HIDE DEF N
    <2> QED BY <1>4, <2>1 DEF NumberedNotes
  <1>10. NoteNumbersDense'
    <2>1. ASSUME NEW y \in {YearOf[t] : t \in Instants}, ~CountUpset
          PROVE  {notes'[n].number.n : n \in NumberedNotes(y)'} = 1..Cardinality(NumberedNotes(y)')
      <3>1. NumberedNotes(y)' = NumberedNotes(y)
        BY <1>9, YearFacts
      <3>2. {notes'[n].number.n : n \in NumberedNotes(y)} = {notes[n].number.n : n \in NumberedNotes(y)}
        BY <1>4 DEF NumberedNotes
      <3>3. {notes[n].number.n : n \in NumberedNotes(y)} = 1..Cardinality(NumberedNotes(y))
        BY <2>1 DEF NotesInv, NoteNumbersDense
      <3> QED BY <3>1, <3>2, <3>3
    <2> QED BY <1>8, <2>1 DEF NoteNumbersDense
  <1>11. ASSUME NEW n \in DOMAIN notes' PROVE NoteCoherent(n)'
    <2>1. CASE n \in DOMAIN notes
      <3>1. NoteCoherent(n) /\ notes'[n] = notes[n] /\ trail'[n] = trail[n]
        BY <1>4, <2>1 DEF NotesInv, NotesCounted
      <3> QED BY <3>1 DEF NoteCoherent
    <2>2. CASE n = N
      BY <1>2, <1>3, <1>4, <2>2 DEF NoteCoherent
    <2> QED BY <1>4, <2>1, <2>2
  <1>12. ASSUME NEW w \in Workers PROVE NoteNumberInReach(w)'
    <2>1. SUFFICES ASSUME issuer[w].pc = "commit", NEW y, y = issuer[w].number.year
          PROVE  /\ y = YearOf[issuer[w].at]
                 /\ CountUpset' \/ issuer[w].number.n \in 1..(Cardinality(NumberedNotes(y)') + 1)
      BY <1>1 DEF NoteNumberInReach, NumberedNotes
    <2>2. /\ y = YearOf[issuer[w].at] /\ issuer[w].at \in Instants
          /\ CountUpset \/ issuer[w].number.n \in 1..(Cardinality(NumberedNotes(y)) + 1)
      BY <2>1 DEF NotesInv, NotesCounted, NoteNumberInReach, NotesTypeOK, IssuerOK
    <2>3. NumberedNotes(y)' = NumberedNotes(y)
      BY <1>9, <2>2, YearFacts
    <2> QED BY <1>8, <2>2, <2>3
  <1>13. NotesCounted'
    BY <1>11, <1>12 DEF NotesCounted
  <1> QED BY <1>6, <1>7, <1>10, <1>13 DEF NotesInv

\* A worker moves and the notes stay as they are.
LEMMA IssuerMoves ==
    ASSUME NotesInv, NEW w \in Workers, UNCHANGED <<clock, notes, trail>>,
           requests' \in 0..MaxRequests,
           issuer' \in [Workers -> IssueVal], \A v \in Workers \ {w} : issuer'[v] = issuer[v],
           IssuerOK(w)', IssuerSound(w)', NoteNumberInReach(w)'
    PROVE  NotesInv'
  <1>1. \A v \in Workers : IssuerOK(v)' /\ IssuerSound(v)'
    BY IssuerKept
  <1>2. NotesTypeOK'
    BY <1>1 DEF NotesInv, NotesTypeOK
  <1>3. CountUpset' = CountUpset
    BY DEF CountUpset, IssuedTwice
  <1>4. \A y : NumberedNotes(y)' = NumberedNotes(y)
    BY DEF NumberedNotes
  <1>5. NoteNumbersDense'
    BY <1>3, <1>4 DEF NotesInv, NoteNumbersDense
  <1>6. ASSUME NEW v \in Workers PROVE NoteNumberInReach(v)'
    <2>1. CASE v = w
      BY <2>1
    <2>2. CASE v # w
      <3>1. NoteNumberInReach(v) /\ issuer'[v] = issuer[v]
        BY <2>2 DEF NotesInv, NotesCounted
      <3> QED BY <1>3, <3>1 DEF NoteNumberInReach, NumberedNotes
    <2> QED BY <2>1, <2>2
  <1>7. NotesCounted'
    BY <1>6 DEF NotesInv, NotesCounted, NoteCoherent
  <1> QED BY <1>1, <1>2, <1>5, <1>7 DEF NotesInv, NotesShape

LEMMA IdleIssue ==
    /\ NoIssue \in IssueVal /\ NoIssue.pc = "idle" /\ NoIssue.row \in Note
    /\ NoIssue.number \in NumberVal
  <1>1. NoNumber \in NumberVal /\ NewDraft(NoRef) \in Note
    BY DEF NoNumber, NumberVal, NewDraft, Note
  <1> QED BY <1>1 DEF NoIssue, IssueVal

LEMMA IssueEnds ==
    ASSUME NotesInv, NEW w \in Workers, issuer' = [issuer EXCEPT ![w] = NoIssue]
    PROVE  /\ issuer' \in [Workers -> IssueVal] /\ \A v \in Workers \ {w} : issuer'[v] = issuer[v]
           /\ issuer'[w] = NoIssue
           /\ IssuerOK(w)' /\ IssuerSound(w)' /\ NoteNumberInReach(w)'
  <1>1. /\ issuer' \in [Workers -> IssueVal] /\ \A v \in Workers \ {w} : issuer'[v] = issuer[v]
        /\ issuer'[w] = NoIssue
    BY IdleIssue DEF NotesInv, NotesShape
  <1> HIDE DEF NotesInv
  <1> QED BY <1>1, IdleIssue DEF IssuerOK, IssuerSound, NoteNumberInReach

LEMMA IssueLoadInv ==
    ASSUME NotesInv, NEW w \in Workers, NEW n \in DOMAIN notes, IssueLoad(w, n) PROVE NotesInv'
  <1> DEFINE v == [pc |-> "count", note |-> n, row |-> notes[n], at |-> clock, number |-> NoNumber]
  <1>1. /\ UNCHANGED <<clock, notes, trail>> /\ requests < MaxRequests /\ requests' = requests + 1
        /\ issuer' = [issuer EXCEPT ![w] = v] /\ NoteNextState(notes[n].state) # "Illegal"
    BY DEF IssueLoad
  <1>2. /\ notes[n] \in Note /\ n \in Nat /\ clock \in Instants /\ clock \in Nat /\ NoNumber \in NumberVal
    BY NoteFacts DEF NotesInv, NotesTypeOK, Instants, NoNumber, NumberVal
  <1>3. notes[n] = NewDraft(notes[n].ref)
    <2>1. notes[n].state = "Draft"
      BY <1>1 DEF NoteNextState
    <2>2. notes[n].number = NoNumber /\ notes[n].issuedAt = 0
      BY <2>1 DEF NotesInv, NotesCounted, NoteCoherent
    <2> QED BY <1>2, <2>1, <2>2 DEF NewDraft, Note
  <1>4. v \in IssueVal /\ v.pc = "count" /\ v.note = n /\ v.row = notes[n] /\ v.at = clock
        /\ v.number = NoNumber
    BY <1>2 DEF IssueVal
  <1> HIDE DEF v
  <1>5. issuer' \in [Workers -> IssueVal] /\ issuer'[w] = v
        /\ \A u \in Workers \ {w} : issuer'[u] = issuer[u]
    BY <1>1, <1>4 DEF NotesInv, NotesShape
  <1>6. IssuerOK(w)' /\ IssuerSound(w)' /\ NoteNumberInReach(w)'
    BY <1>1, <1>2, <1>3, <1>4, <1>5 DEF IssuerOK, IssuerSound, NoteNumberInReach
  <1>7. requests' \in 0..MaxRequests
    BY <1>1, CreditNoteAssumption DEF NotesInv, NotesTypeOK
  <1> QED BY <1>1, <1>5, <1>6, <1>7, IssuerMoves

\* The count is the number of the year's notes, unless something upset it.
LEMMA CountIsNumbered ==
    ASSUME NotesInv, ~CountUpset, NEW y PROVE CountNotes(y) <= Cardinality(NumberedNotes(y))
  <1> DEFINE S == {n \in DOMAIN notes : notes[n].issuedAt # 0 /\ NoteYear(notes[n].issuedAt) = y}
  <1>1. ASSUME NEW n \in S PROVE n \in NumberedNotes(y)
    <2>1. notes[n].number.year = YearOf[notes[n].issuedAt]
      BY DEF NotesInv, NotesCounted, NoteCoherent
    <2>2. notes[n].issuedAt \notin FirstSecond
      BY DEF CountUpset
    <2> QED BY <2>1, <2>2 DEF NumberedNotes, NoteYear
  <1>2. S \in SUBSET NumberedNotes(y) /\ IsFiniteSet(NumberedNotes(y))
    BY <1>1, NumberedFinite DEF NotesInv
  <1>3. Cardinality(S) <= Cardinality(NumberedNotes(y))
    BY <1>2, FS_Subset
  <1> QED BY <1>3 DEF CountNotes

LEMMA IssueCountInv == ASSUME NotesInv, NEW w \in Workers, IssueCount(w) PROVE NotesInv'
  <1>1. PICK t \in issuer[w].at..clock :
            issuer' = [issuer EXCEPT
              ![w].pc = "commit", ![w].at = t,
              ![w].number = [year |-> YearOf[t], n |-> CountNotes(YearOf[t]) + 1]]
    BY DEF IssueCount
  <1>2. UNCHANGED <<clock, notes, trail, requests>> /\ issuer[w].pc = "count"
    BY DEF IssueCount
  <1> DEFINE y == YearOf[t]
             num == [year |-> y, n |-> CountNotes(y) + 1]
  <1>3. t \in Instants /\ t \in Nat
    BY <1>2, CreditNoteAssumption DEF NotesInv, NotesTypeOK, IssuerOK, Instants
  <1>4. y \in Nat /\ CountNotes(y) \in Nat /\ Cardinality(NumberedNotes(y)) \in Nat
    BY <1>3, NumberedFinite, CreditNoteAssumption DEF NotesInv
  <1>5. num \in NumberVal /\ num.year = y /\ num.n = CountNotes(y) + 1
    BY <1>4 DEF NumberVal
  <1>6. CountUpset \/ num.n \in 1..(Cardinality(NumberedNotes(y)) + 1)
    BY <1>4, <1>5, CountIsNumbered
  <1> HIDE DEF num, y
  <1>7. /\ issuer' \in [Workers -> IssueVal] /\ \A v \in Workers \ {w} : issuer'[v] = issuer[v]
        /\ issuer'[w].pc = "commit" /\ issuer'[w].at = t /\ issuer'[w].number = num
        /\ issuer'[w].note = issuer[w].note /\ issuer'[w].row = issuer[w].row
    BY <1>1, <1>3, <1>5 DEF NotesInv, NotesShape, IssueVal, num, y
  <1>8. IssuerOK(w)' /\ IssuerSound(w)'
    BY <1>2, <1>3, <1>5, <1>7 DEF NotesInv, NotesTypeOK, NotesShape, IssuerOK, IssuerSound
  <1>9. NoteNumberInReach(w)'
    BY <1>2, <1>5, <1>6, <1>7 DEF NoteNumberInReach, NumberedNotes, CountUpset, IssuedTwice, y
  <1>10. requests' \in 0..MaxRequests
    BY <1>2 DEF NotesInv, NotesTypeOK
  <1> QED BY <1>2, <1>7, <1>8, <1>9, <1>10, IssuerMoves

\* What a commit that goes through writes.
LEMMA CommitFacts ==
    ASSUME NotesInv, NEW w \in Workers, issuer[w].pc = "commit",
           notes' = [notes EXCEPT ![issuer[w].note] =
               [issuer[w].row EXCEPT !.state = NoteNextState(issuer[w].row.state),
                                     !.number = issuer[w].number, !.issuedAt = issuer[w].at]],
           trail' = [trail EXCEPT ![issuer[w].note] = Append(@,
               [from |-> issuer[w].row.state, to |-> "Issued", at |-> issuer[w].at, bus |-> NoRef])]
    PROVE  LET k == issuer[w].note
           IN  /\ k \in DOMAIN notes /\ issuer[w].at \in Instants
               /\ notes' \in Seq(Note) /\ Len(notes') = Len(notes) /\ DOMAIN notes' = DOMAIN notes
               /\ notes'[k].state = "Issued" /\ notes'[k].number = issuer[w].number
               /\ notes'[k].issuedAt = issuer[w].at /\ notes'[k].ref = notes[k].ref
               /\ \A n \in DOMAIN notes : n # k => notes'[n] = notes[n] /\ trail'[n] = trail[n]
               /\ trail' \in Seq(Seq(NoteHistoryRow)) /\ Len(trail') = Len(trail)
               /\ \A i \in DOMAIN trail[k] : i \in DOMAIN trail'[k] /\ trail'[k][i] = trail[k][i]
               /\ Len(trail[k]) + 1 \in DOMAIN trail'[k] /\ Len(trail[k]) + 1 \notin DOMAIN trail[k]
               /\ trail'[k][Len(trail[k]) + 1].to = "Issued"
  <1> DEFINE k == issuer[w].note
             num == issuer[w].number
             at == issuer[w].at
             new == [issuer[w].row EXCEPT !.state = NoteNextState(issuer[w].row.state),
                                          !.number = num, !.issuedAt = at]
             rec == [from |-> issuer[w].row.state, to |-> "Issued", at |-> at, bus |-> NoRef]
  <1>1. /\ k \in DOMAIN notes /\ at \in Instants /\ at \in Nat /\ num \in NumberVal
        /\ issuer[w].row \in Note /\ issuer[w].row = NewDraft(notes[k].ref)
    BY DEF NotesInv, NotesTypeOK, NotesShape, IssuerOK, IssuerSound, Instants
  <1>2. issuer[w].row.state = "Draft" /\ issuer[w].row.ref = notes[k].ref
    BY <1>1 DEF NewDraft
  <1>3. new \in Note /\ new.state = "Issued" /\ new.number = num /\ new.issuedAt = at
        /\ new.ref = notes[k].ref
    BY <1>1, <1>2 DEF Note, NoteNextState
  <1>4. rec \in NoteHistoryRow /\ rec.to = "Issued"
    BY <1>1, <1>2 DEF NoteHistoryRow
  <1>5. /\ notes \in Seq(Note) /\ trail \in Seq(Seq(NoteHistoryRow)) /\ Len(trail) = Len(notes)
        /\ DOMAIN notes = 1..Len(notes) /\ DOMAIN trail = 1..Len(notes) /\ Len(notes) \in Nat
        /\ trail[k] \in Seq(NoteHistoryRow)
    BY <1>1, NoteFacts DEF NotesInv, NotesTypeOK
  <1>6. notes' = [notes EXCEPT ![k] = new] /\ trail' = [trail EXCEPT ![k] = Append(trail[k], rec)]
    OBVIOUS
  <1> HIDE DEF new, rec, num, at, k
  <1>7. Append(trail[k], rec) \in Seq(NoteHistoryRow)
    BY <1>4, <1>5
  <1>8. /\ notes' \in Seq(Note) /\ Len(notes') = Len(notes) /\ DOMAIN notes' = DOMAIN notes
        /\ notes'[k] = new /\ \A n \in DOMAIN notes : n # k => notes'[n] = notes[n]
    <2> DEFINE after == [notes EXCEPT ![k] = new]
    <2>1. k \in 1..Len(notes) /\ notes \in Seq(Note) /\ new \in Note
      BY <1>1, <1>3, <1>5
    <2>2. after \in Seq(Note) /\ Len(after) = Len(notes)
          /\ \A n \in 1..Len(notes) : after[n] = IF n = k THEN new ELSE notes[n]
      BY <2>1, ExceptSeq
    <2>3. DOMAIN after = DOMAIN notes
      OBVIOUS
    <2>4. notes' = after
      BY <1>6
    <2> HIDE DEF after
    <2> QED BY <1>5, <2>1, <2>2, <2>3, <2>4
  <1>9. /\ trail' \in Seq(Seq(NoteHistoryRow)) /\ Len(trail') = Len(trail)
        /\ trail'[k] = Append(trail[k], rec)
        /\ \A n \in DOMAIN notes : n # k => trail'[n] = trail[n]
    <2> DEFINE more == Append(trail[k], rec)
               after == [trail EXCEPT ![k] = more]
    <2>1. k \in 1..Len(trail) /\ trail \in Seq(Seq(NoteHistoryRow)) /\ more \in Seq(NoteHistoryRow)
      BY <1>1, <1>5, <1>7
    <2>2. trail' = after
      BY <1>6
    <2>3. after \in Seq(Seq(NoteHistoryRow)) /\ Len(after) = Len(trail)
          /\ \A n \in 1..Len(trail) : after[n] = IF n = k THEN more ELSE trail[n]
      <3> HIDE DEF more
      <3> QED BY <2>1, ExceptSeq
    <2> HIDE DEF after
    <2> QED BY <1>5, <2>1, <2>2, <2>3
  <1>10. /\ \A i \in DOMAIN trail[k] : i \in DOMAIN trail'[k] /\ trail'[k][i] = trail[k][i]
         /\ Len(trail[k]) + 1 \in DOMAIN trail'[k] /\ Len(trail[k]) + 1 \notin DOMAIN trail[k]
         /\ trail'[k][Len(trail[k]) + 1] = rec
    <2>1. /\ Len(Append(trail[k], rec)) = Len(trail[k]) + 1 /\ Len(trail[k]) \in Nat
          /\ DOMAIN trail[k] = 1..Len(trail[k])
          /\ DOMAIN Append(trail[k], rec) = 1..(Len(trail[k]) + 1)
      BY <1>5
    <2>2. /\ \A i \in 1..Len(trail[k]) : Append(trail[k], rec)[i] = trail[k][i]
          /\ Append(trail[k], rec)[Len(trail[k]) + 1] = rec
      BY <1>5
    <2>3. trail'[k] = Append(trail[k], rec)
      BY <1>9
    <2>4. 1..Len(trail[k]) \subseteq 1..(Len(trail[k]) + 1)
          /\ Len(trail[k]) + 1 \in 1..(Len(trail[k]) + 1) /\ Len(trail[k]) + 1 \notin 1..Len(trail[k])
      BY <2>1
    <2> QED BY <2>1, <2>2, <2>3, <2>4
  <1> QED BY <1>1, <1>3, <1>4, <1>8, <1>9, <1>10 DEF k, num, at

LEMMA CommitInv ==
    ASSUME NotesInv, NEW w \in Workers, IssueCommit(w), NumberFree(w),
           notes' = [notes EXCEPT ![issuer[w].note] =
               [issuer[w].row EXCEPT !.state = NoteNextState(issuer[w].row.state),
                                     !.number = issuer[w].number, !.issuedAt = issuer[w].at]],
           trail' = [trail EXCEPT ![issuer[w].note] = Append(@,
               [from |-> issuer[w].row.state, to |-> "Issued", at |-> issuer[w].at, bus |-> NoRef])]
    PROVE  NotesInv'
  <1> DEFINE k == issuer[w].note
             num == issuer[w].number
             at == issuer[w].at
             last == Len(trail[k]) + 1
             size(y) == Cardinality(NumberedNotes(y))
             image(y) == {notes[n].number.n : n \in NumberedNotes(y)}
  <1>0. /\ issuer[w].pc = "commit" /\ UNCHANGED <<clock, requests>>
        /\ issuer' = [issuer EXCEPT ![w] = NoIssue]
    BY DEF IssueCommit
  <1>1. /\ k \in DOMAIN notes /\ at \in Instants
        /\ notes' \in Seq(Note) /\ Len(notes') = Len(notes) /\ DOMAIN notes' = DOMAIN notes
        /\ notes'[k].state = "Issued" /\ notes'[k].number = num
        /\ notes'[k].issuedAt = at /\ notes'[k].ref = notes[k].ref
        /\ \A n \in DOMAIN notes : n # k => notes'[n] = notes[n] /\ trail'[n] = trail[n]
        /\ trail' \in Seq(Seq(NoteHistoryRow)) /\ Len(trail') = Len(trail)
        /\ \A i \in DOMAIN trail[k] : i \in DOMAIN trail'[k] /\ trail'[k][i] = trail[k][i]
        /\ last \in DOMAIN trail'[k] /\ last \notin DOMAIN trail[k]
        /\ trail'[k][last].to = "Issued"
    BY <1>0, CommitFacts
  <1>2. /\ num.year = YearOf[at] /\ num \in NumberVal
        /\ CountUpset \/ num.n \in 1..(size(num.year) + 1)
        /\ \A n \in DOMAIN notes : n # k => notes[n].number # num
    BY <1>0 DEF NotesInv, NotesTypeOK, NotesCounted, NoteNumberInReach, NumberFree, IssuerOK
  <1>3. /\ issuer' \in [Workers -> IssueVal] /\ \A v \in Workers \ {w} : issuer'[v] = issuer[v]
        /\ issuer'[w] = NoIssue
        /\ IssuerOK(w)' /\ IssuerSound(w)' /\ NoteNumberInReach(w)'
    BY <1>0, IssueEnds
  <1> HIDE DEF k, num, at, last
  <1>4. \A n \in DOMAIN notes : n \in DOMAIN notes' /\ notes'[n].ref = notes[n].ref
    BY <1>1
  <1>5. \A v \in Workers : IssuerOK(v)' /\ IssuerSound(v)'
    BY <1>3, <1>4, IssuerKept
  <1>6. NotesTypeOK' /\ NotesShape'
    BY <1>0, <1>1, <1>3, <1>5 DEF NotesInv, NotesTypeOK, NotesShape
  <1>7. ASSUME NEW n \in DOMAIN notes PROVE IssuesOf(n) \subseteq IssuesOf(n)' /\ IsFiniteSet(IssuesOf(n)')
                                            /\ IsFiniteSet(IssuesOf(n))
    <2>1. IssuesOf(n) \subseteq IssuesOf(n)'
      <3>1. CASE n = k
        BY <1>1, <3>1 DEF IssuesOf
      <3>2. CASE n # k
        <4>1. trail'[n] = trail[n]
          BY <1>1, <3>2
        <4> QED BY <4>1 DEF IssuesOf
      <3> QED BY <3>1, <3>2
    <2>2. trail'[n] \in Seq(NoteHistoryRow) /\ trail[n] \in Seq(NoteHistoryRow)
      BY <1>1, NoteFacts DEF NotesInv, NotesTypeOK
    <2> QED BY <2>1, <2>2, IssuesFinite DEF IssuesOf
  <1>8. notes[k].state = "Issued" => CountUpset'
    <2> SUFFICES ASSUME notes[k].state = "Issued" PROVE IssuedTwice'
      BY DEF CountUpset
    <2>0. PICK c \in DOMAIN notes : c = k
      BY <1>1
    <2>1. PICK i \in DOMAIN trail[k] : trail[k][i].to = "Issued"
      BY <1>1 DEF NotesInv, NotesCounted, NoteCoherent
    <2>2. i \in IssuesOf(c)' /\ last \in IssuesOf(c)' /\ i # last
      BY <1>1, <2>0, <2>1 DEF IssuesOf
    <2>3. Cardinality(IssuesOf(c)') > 1
      BY <1>7, <2>2, TwoElements
    <2> QED BY <1>1, <2>3 DEF IssuedTwice, IssuesOf
  <1>9. CountUpset => CountUpset'
    <2>1. ASSUME IssuedTwice PROVE IssuedTwice'
      <3>1. PICK n \in DOMAIN notes : Cardinality(IssuesOf(n)) > 1
        BY <2>1 DEF IssuedTwice, IssuesOf
      <3>2. /\ Cardinality(IssuesOf(n)) <= Cardinality(IssuesOf(n)')
            /\ Cardinality(IssuesOf(n)) \in Nat /\ Cardinality(IssuesOf(n)') \in Nat
        BY <1>7, FS_Subset, FS_CardinalityType
      <3>3. Cardinality(IssuesOf(n)') > 1
        BY <3>1, <3>2
      <3> QED BY <1>1, <3>3 DEF IssuedTwice, IssuesOf
    <2>2. ASSUME NEW n \in DOMAIN notes, notes[n].issuedAt \in FirstSecond PROVE CountUpset'
      <3>1. CASE n # k
        BY <1>1, <2>2, <3>1 DEF CountUpset
      <3>2. CASE n = k
        <4>1. notes[k].issuedAt # 0
          BY <2>2, <3>2, CreditNoteAssumption DEF Instants
        <4>2. notes[k].state = "Issued"
          BY <1>1, <4>1 DEF NotesInv, NotesCounted, NoteCoherent
        <4> QED BY <1>8, <4>2
      <3> QED BY <3>1, <3>2
    <2> QED BY <2>1, <2>2 DEF CountUpset
  <1>10. ASSUME NEW n \in DOMAIN notes' PROVE NoteCoherent(n)'
    <2>1. CASE n = k
      BY ZenonT(40), <1>1, <1>2, <2>1 DEF NoteCoherent
    <2>2. CASE n # k
      <3>1. NoteCoherent(n) /\ notes'[n] = notes[n] /\ trail'[n] = trail[n]
        BY <1>1, <2>2 DEF NotesInv, NotesCounted
      <3> QED BY <3>1 DEF NoteCoherent
    <2> QED BY <2>1, <2>2
  \* The rest is for a note that was a draft, and a count that nothing upset.
  <1>11. ASSUME ~CountUpset'
         PROVE  /\ \A y \in {YearOf[t] : t \in Instants} :
                      {notes'[n].number.n : n \in NumberedNotes(y)'} = 1..Cardinality(NumberedNotes(y)')
                /\ \A y : y # 0 => /\ size(y) <= Cardinality(NumberedNotes(y)')
                                   /\ Cardinality(NumberedNotes(y)') \in Nat
    <2> DEFINE y0 == num.year
    <2>1. ~CountUpset /\ notes[k].state # "Issued"
      BY <1>8, <1>9, <1>11
    <2>2. notes[k].number = NoNumber
      BY <1>1, <2>1 DEF NotesInv, NotesCounted, NoteCoherent
    <2>3. y0 \in {YearOf[t] : t \in Instants} /\ y0 # 0
      BY SMTT(30), <1>1, <1>2, YearFacts
    <2>4. \A y : y # 0 => k \notin NumberedNotes(y)
      BY <2>2 DEF NumberedNotes, NoNumber
    <2>5. image(y0) = 1..size(y0) /\ size(y0) \in Nat
      BY <2>1, <2>3, NumberedFinite DEF NotesInv, NoteNumbersDense
    <2>6. num.n \notin image(y0)
      <3>1. ASSUME NEW j \in NumberedNotes(y0) PROVE notes[j].number.n # num.n
        <4>1. j \in DOMAIN notes /\ j # k /\ notes[j].number.year = num.year
          BY <2>3, <2>4 DEF NumberedNotes
        <4>2. notes[j].number \in NumberVal /\ notes[j].number # num
          BY <1>2, <4>1, NoteFacts DEF NotesInv, Note
        <4> QED BY <1>2, <4>1, <4>2 DEF NumberVal
      <3> QED BY <3>1
    <2>7. num.n = size(y0) + 1
      BY <1>2, <2>1, <2>5, <2>6
    <2>8. ASSUME NEW y, y = y0
          PROVE  /\ NumberedNotes(y)' = NumberedNotes(y) \union {k}
                 /\ Cardinality(NumberedNotes(y)') = size(y) + 1
      <3>1. NumberedNotes(y)' = {n \in DOMAIN notes : notes'[n].number.year = y}
        BY <1>1 DEF NumberedNotes
      <3>2. NumberedNotes(y)' = NumberedNotes(y) \union {k}
        BY <1>1, <2>8, <3>1 DEF NumberedNotes
      <3>3. k \notin NumberedNotes(y) /\ IsFiniteSet(NumberedNotes(y))
        BY <2>3, <2>4, <2>8, NumberedFinite DEF NotesInv
      <3> QED BY <3>2, <3>3, FS_AddElement
    <2>9. ASSUME NEW y, y # y0, y # 0 PROVE NumberedNotes(y)' = NumberedNotes(y)
      BY SMTT(30), <1>1, <2>4, <2>9 DEF NumberedNotes
    <2>10. \A y : y # 0 => \A n \in NumberedNotes(y) : notes'[n] = notes[n]
      BY <1>1, <2>4 DEF NumberedNotes
    <2>11. ASSUME NEW y \in {YearOf[t] : t \in Instants}
           PROVE  {notes'[n].number.n : n \in NumberedNotes(y)'} = 1..Cardinality(NumberedNotes(y)')
      <3>0. y # 0
        BY YearFacts
      <3>1. {notes'[n].number.n : n \in NumberedNotes(y)} = image(y)
        BY <2>10, <3>0
      <3>2. CASE y = y0
        <4>0. notes'[k].number.n = num.n
          BY <1>1
        <4>1. {notes'[n].number.n : n \in NumberedNotes(y) \union {k}} = image(y) \union {num.n}
          <5> HIDE DEF image
          <5> QED BY <3>1, <4>0
        <4>2. image(y) \union {num.n} = 1..(size(y) + 1)
          <5>1. image(y) = 1..size(y) /\ num.n = size(y) + 1 /\ size(y) \in Nat
            BY <2>1, <2>5, <2>7, <3>2
          <5> HIDE DEF image, size
          <5> QED BY <5>1
        <4> HIDE DEF image, size
        <4> QED BY <2>8, <3>2, <4>1, <4>2
      <3>3. CASE y # y0
        <4>1. image(y) = 1..size(y)
          BY <2>1 DEF NotesInv, NoteNumbersDense
        <4> QED BY <2>9, <3>0, <3>1, <3>3, <4>1
      <3> QED BY <3>2, <3>3
    <2>12. ASSUME NEW y, y # 0
           PROVE  size(y) <= Cardinality(NumberedNotes(y)') /\ Cardinality(NumberedNotes(y)') \in Nat
      <3>1. size(y) \in Nat
        BY NumberedFinite DEF NotesInv
      <3>2. CASE y = y0
        BY <2>8, <3>1, <3>2
      <3>3. CASE y # y0
        BY <2>9, <2>12, <3>1, <3>3
      <3> QED BY <3>2, <3>3
    <2> QED BY <2>11, <2>12
  <1>12. NoteNumbersDense'
    BY <1>11 DEF NoteNumbersDense
  <1>13. ASSUME NEW v \in Workers PROVE NoteNumberInReach(v)'
    <2>1. CASE v = w
      BY <1>3, <2>1
    <2>2. CASE v # w
      <3>1. SUFFICES ASSUME issuer[v].pc = "commit", NEW y, y = issuer[v].number.year
            PROVE  /\ y = YearOf[issuer[v].at]
                   /\ CountUpset' \/ issuer[v].number.n \in 1..(Cardinality(NumberedNotes(y)') + 1)
        BY ZenonT(40), <1>3, <2>2 DEF NoteNumberInReach, NumberedNotes
      <3>2. /\ y = YearOf[issuer[v].at] /\ issuer[v].at \in Instants
            /\ CountUpset \/ issuer[v].number.n \in 1..(size(y) + 1)
        BY <3>1 DEF NotesInv, NotesCounted, NoteNumberInReach, NotesTypeOK, IssuerOK
      <3>3. y # 0 /\ size(y) \in Nat
        BY <3>2, YearFacts, NumberedFinite DEF NotesInv
      <3> QED BY <1>9, <1>11, <3>2, <3>3
    <2> QED BY <2>1, <2>2
  <1>14. NotesCounted'
    BY <1>10, <1>13 DEF NotesCounted
  <1> QED BY <1>6, <1>12, <1>14 DEF NotesInv

LEMMA IssueCommitInv == ASSUME NotesInv, NEW w \in Workers, IssueCommit(w) PROVE NotesInv'
  <1>1. CASE NumberFree(w)
    BY <1>1, CommitInv DEF IssueCommit
  <1>2. CASE ~NumberFree(w)
    <2>1. /\ UNCHANGED <<clock, notes, trail, requests>>
          /\ issuer' = [issuer EXCEPT ![w] = NoIssue]
      BY <1>2 DEF IssueCommit
    <2>2. requests' \in 0..MaxRequests
      BY <2>1 DEF NotesInv, NotesTypeOK
    <2> QED BY <2>1, <2>2, IssueEnds, IssuerMoves
  <1> QED BY <1>1, <1>2

LEMMA NotesNextInv == ASSUME NotesInv, NotesNext PROVE NotesInv'
  <1>1. CASE ClockTick
    <2>1. clock' \in Instants /\ requests' \in 0..MaxRequests /\ UNCHANGED <<notes, trail, issuer>>
      BY <1>1, CreditNoteAssumption DEF ClockTick, NotesInv, NotesTypeOK, Instants
    <2> QED BY <2>1, NotesStill
  <1>2. CASE CreateManually
    <2>1. requests' \in 0..MaxRequests /\ CreateNote(NoRef)
      BY <1>2, CreditNoteAssumption DEF CreateManually, NotesInv, NotesTypeOK
    <2> QED BY <2>1, CreateNoteInv
  <1>3. ASSUME NEW w \in Workers, NEW n \in DOMAIN notes, IssueLoad(w, n) PROVE NotesInv'
    BY <1>3, IssueLoadInv
  <1>4. ASSUME NEW w \in Workers, IssueCount(w) PROVE NotesInv'
    BY <1>4, IssueCountInv
  <1>5. ASSUME NEW w \in Workers, IssueCommit(w) PROVE NotesInv'
    BY <1>5, IssueCommitInv
  <1>6. ASSUME NEW w \in Workers, IssueFail(w) PROVE NotesInv'
    <2>1. /\ UNCHANGED <<clock, notes, trail, requests>>
          /\ issuer' = [issuer EXCEPT ![w] = NoIssue]
      BY <1>6 DEF IssueFail
    <2>2. requests' \in 0..MaxRequests
      BY <2>1 DEF NotesInv, NotesTypeOK
    <2> QED BY <2>1, <2>2, IssueEnds, IssuerMoves
  <1> QED BY <1>1, <1>2, <1>3, <1>4, <1>5, <1>6 DEF NotesNext

(* The notes of a refund *)

NotesOf(f) == {n \in DOMAIN notes : notes[n].ref = f}

\* No step but the creation of a note changes which notes carry a refund_ref.
LEMMA RefsKept == ASSUME NotesInv, NotesNext, NEW f \in Refs PROVE NotesOf(f)' = NotesOf(f)
  <1>1. CASE UNCHANGED notes
    BY <1>1 DEF NotesOf
  <1>2. CASE CreateManually
    <2>1. /\ notes \in Seq(Note) /\ Len(notes) \in Nat /\ notes' = Append(notes, NewDraft(NoRef))
          /\ NewDraft(NoRef).ref = NoRef /\ NoRef # f
      BY <1>2, CreditNoteAssumption DEF CreateManually, CreateNote, NotesInv, NotesTypeOK, NewDraft
    <2> QED BY <2>1 DEF NotesOf
  <1>3. ASSUME NEW w \in Workers, IssueCommit(w), notes' # notes PROVE NotesOf(f)' = NotesOf(f)
    <2>1. /\ DOMAIN notes' = DOMAIN notes
          /\ \A n \in DOMAIN notes : notes'[n].ref = notes[n].ref
      <3>1. /\ issuer[w].pc = "commit"
            /\ notes' = [notes EXCEPT ![issuer[w].note] =
                 [issuer[w].row EXCEPT !.state = NoteNextState(issuer[w].row.state),
                                       !.number = issuer[w].number, !.issuedAt = issuer[w].at]]
            /\ trail' = [trail EXCEPT ![issuer[w].note] = Append(@,
                 [from |-> issuer[w].row.state, to |-> "Issued", at |-> issuer[w].at, bus |-> NoRef])]
        BY <1>3 DEF IssueCommit
      <3> QED BY <3>1, CommitFacts
    <2> QED BY <2>1 DEF NotesOf
  <1> QED
    BY <1>1, <1>2, <1>3 DEF NotesNext, ClockTick, IssueLoad, IssueCount, IssueFail

\* A note that a refund creates is one more.
LEMMA OneMoreNote ==
    ASSUME NotesInv, NEW ref \in Refs, CreateNote(ref), NEW f \in Refs
    PROVE  /\ f # ref => NotesOf(f)' = NotesOf(f)
           /\ f = ref => Cardinality(NotesOf(f)') = Cardinality(NotesOf(f)) + 1
  <1> DEFINE N == Len(notes) + 1
  <1>1. /\ notes \in Seq(Note) /\ Len(notes) \in Nat /\ notes' = Append(notes, NewDraft(ref))
        /\ NewDraft(ref).ref = ref
    BY DEF CreateNote, NotesInv, NotesTypeOK, NewDraft
  <1>2. /\ DOMAIN notes = 1..Len(notes) /\ DOMAIN notes' = DOMAIN notes \union {N}
        /\ N \notin DOMAIN notes /\ notes'[N].ref = ref
        /\ \A n \in DOMAIN notes : notes'[n] = notes[n]
    BY <1>1
  <1> HIDE DEF N
  <1>3. ASSUME f # ref PROVE NotesOf(f)' = NotesOf(f)
    BY <1>2, <1>3 DEF NotesOf
  <1>4. ASSUME f = ref PROVE Cardinality(NotesOf(f)') = Cardinality(NotesOf(f)) + 1
    <2>1. NotesOf(f)' = NotesOf(f) \union {N} /\ N \notin NotesOf(f)
      BY <1>2, <1>4 DEF NotesOf
    <2>2. IsFiniteSet(NotesOf(f))
      BY NotesFinite DEF NotesInv, NotesOf
    <2> QED BY <2>1, <2>2, FS_AddElement
  <1> QED BY <1>3, <1>4

(* The inbox *)

Delivery == [pc : {"idle", "select", "insert", "dispatch", "mark"}, event : EventIds]

AppliedEvents == {e \in EventIds : applied[e] > 0}
RefundsOf(f) == {e \in EventIds : /\ applied[e] > 0 /\ RefOf(e) = f
                                /\ RemapTopic(TopicOf[e]) = "payment.refunded"}

BusTyped ==
    /\ inbox \in [EventIds -> {"absent", "received", "processed"}]
    /\ receiver \in [Receivers -> Delivery]
    /\ drafts \subseteq {KeyOf(e) : e \in {x \in EventIds : Payload[x] # BadPayload}}
    /\ applied \in [EventIds -> Nat]

\* The inductive invariant of the rows of the inbox, and the one of the notes
\* that refunds created.  The applied events are finitely many although Events
\* need not be finite.
RowsInv == /\ BusTyped /\ RowOwned /\ ProcessedMeansApplied
           /\ \A e \in EventIds : applied[e] <= 1
RefundsInv == /\ IsFiniteSet(AppliedEvents)
              /\ \A f \in Refs : Cardinality(NotesOf(f)) = Cardinality(RefundsOf(f))
BusInv == NotesInv /\ RowsInv /\ RefundsInv

LEMMA BusInvMeans == BusInv => TypeOK /\ AppliedAtMostOnce
  <1> SUFFICES ASSUME BusInv PROVE TypeOK /\ AppliedAtMostOnce
    OBVIOUS
  <1>1. TypeOK
    BY DEF BusInv, NotesInv, RowsInv, BusTyped, TypeOK, Delivery
  <1>2. AppliedAtMostOnce
    BY DEF BusInv, RowsInv, RefundsInv, NotesOf, RefundsOf, AppliedAtMostOnce
  <1> QED BY <1>1, <1>2

LEMMA IdleDelivery == Idle \in Delivery /\ Idle.pc = "idle"
  <1>1. (CHOOSE e \in EventIds : TRUE) \in EventIds
    BY ConsumerAssumption
  <1> QED BY <1>1 DEF Idle, Delivery

LEMMA BusInit == Init => BusInv
  <1> SUFFICES ASSUME Init PROVE BusInv
    OBVIOUS
  <1>1. NotesInv
    BY NotesInitInv DEF Init
  <1>2. /\ \A e \in EventIds : inbox[e] = "absent" /\ applied[e] = 0
        /\ \A r \in Receivers : receiver[r] = Idle
    BY DEF Init
  <1>3. RowOwned
    BY <1>2, IdleDelivery DEF RowOwned
  <1>4. ProcessedMeansApplied /\ \A e \in EventIds : applied[e] <= 1
    BY <1>2 DEF ProcessedMeansApplied
  <1>5. BusTyped
    BY IdleDelivery DEF Init, BusTyped
  <1>6. AppliedEvents = {} /\ \A f \in Refs : RefundsOf(f) = {} /\ NotesOf(f) = {}
    BY <1>2 DEF AppliedEvents, RefundsOf, NotesOf, Init, NotesInit
  <1>7. RefundsInv
    BY <1>6, FS_EmptySet DEF RefundsInv
  <1> QED BY <1>1, <1>3, <1>4, <1>5, <1>7 DEF BusInv, RowsInv

\* A receiver takes an event, gives one up or goes back to the lookup.
LEMMA ReceiverFree ==
    ASSUME RowsInv, NEW r \in Receivers, NEW v \in Delivery, v.pc \in {"idle", "select", "insert"},
           receiver' = [receiver EXCEPT ![r] = v], UNCHANGED <<inbox, drafts, applied>>
    PROVE  RowsInv'
  <1>1. receiver' \in [Receivers -> Delivery] /\ receiver'[r] = v
        /\ \A q \in Receivers \ {r} : receiver'[q] = receiver[q]
    BY DEF RowsInv, BusTyped
  <1>2. BusTyped'
    BY <1>1 DEF RowsInv, BusTyped
  <1>3. \A q \in Receivers : receiver'[q].pc \in {"dispatch", "mark"} => q # r /\ receiver'[q] = receiver[q]
    BY <1>1
  <1>4. RowOwned'
    BY <1>3 DEF RowsInv, RowOwned
  <1>5. ProcessedMeansApplied' /\ \A e \in EventIds : applied'[e] <= 1
    BY DEF RowsInv, ProcessedMeansApplied
  <1> QED BY <1>2, <1>4, <1>5 DEF RowsInv

\* Nothing of what refunds created changes.
LEMMA RefundsStill ==
    ASSUME RefundsInv, UNCHANGED applied, \A f \in Refs : NotesOf(f)' = NotesOf(f)
    PROVE  RefundsInv'
  BY DEF RefundsInv, AppliedEvents, RefundsOf

LEMMA NotesUntouched ==
    ASSUME NotesInv, UNCHANGED noteVars PROVE NotesInv' /\ \A f \in Refs : NotesOf(f)' = NotesOf(f)
  <1>1. NotesInv'
    BY NotesStill DEF NotesInv, NotesTypeOK
  <1> QED BY <1>1 DEF NotesOf

\* The insert that succeeds makes its receiver the owner of the row.
LEMMA InsertRows ==
    ASSUME RowsInv, NEW r \in Receivers, Insert(r) PROVE RowsInv'
  <1>0. PICK e \in EventIds : e = receiver[r].event
    BY DEF RowsInv, BusTyped, Delivery
  <1>1. receiver[r] \in Delivery /\ receiver[r].pc = "insert" /\ UNCHANGED <<drafts, applied>>
    BY DEF Insert, RowsInv, BusTyped
  <1>2. CASE inbox[e] = "absent"
    <2>1. /\ inbox' = [inbox EXCEPT ![e] = "received"]
          /\ receiver' = [receiver EXCEPT ![r].pc = "dispatch"]
      BY <1>0, <1>2 DEF Insert
    <2>2. /\ receiver' \in [Receivers -> Delivery]
          /\ receiver'[r].pc = "dispatch" /\ receiver'[r].event = e
          /\ \A q \in Receivers \ {r} : receiver'[q] = receiver[q]
      BY <1>0, <2>1 DEF RowsInv, BusTyped, Delivery
    <2>3. /\ inbox' \in [EventIds -> {"absent", "received", "processed"}] /\ inbox'[e] = "received"
          /\ \A x \in EventIds \ {e} : inbox'[x] = inbox[x]
      BY <2>1 DEF RowsInv, BusTyped
    <2>4. BusTyped'
      BY <1>1, <2>2, <2>3 DEF RowsInv, BusTyped
    <2>5. \A q \in Receivers \ {r} : receiver[q].pc \in {"dispatch", "mark"} => receiver[q].event # e
      BY <1>2 DEF RowsInv, RowOwned
    <2>6. applied[e] = 0
      BY <1>2 DEF RowsInv, RowOwned
    <2>6a. \A q \in Receivers : receiver[q].event \in EventIds
      BY DEF RowsInv, BusTyped, Delivery
    <2>7. RowOwned'
      BY <1>1, <2>2, <2>3, <2>5, <2>6, <2>6a DEF RowsInv, RowOwned
    <2>8. ProcessedMeansApplied' /\ \A x \in EventIds : applied'[x] <= 1
      BY <1>1, <2>3 DEF RowsInv, ProcessedMeansApplied
    <2> QED BY <2>4, <2>7, <2>8 DEF RowsInv
  <1>3. CASE inbox[e] # "absent"
    <2>1. receiver' = [receiver EXCEPT ![r].pc = "select"] /\ UNCHANGED inbox
      BY <1>0, <1>3 DEF Insert
    <2>2. PICK v \in Delivery : v = [receiver[r] EXCEPT !.pc = "select"] /\ v.pc = "select"
      <3>1. [receiver[r] EXCEPT !.pc = "select"] \in Delivery
            /\ [receiver[r] EXCEPT !.pc = "select"].pc = "select"
        BY <1>1 DEF Delivery
      <3> QED BY <3>1
    <2>3. receiver' = [receiver EXCEPT ![r] = v]
      BY <2>1, <2>2
    <2> QED BY <1>1, <2>1, <2>2, <2>3, ReceiverFree DEF RowsInv, BusTyped
  <1> QED BY <1>2, <1>3

LEMMA MarkRows ==
    ASSUME RowsInv, NEW r \in Receivers, MarkProcessed(r) PROVE RowsInv'
  <1>0. PICK e \in EventIds : e = receiver[r].event
    BY DEF RowsInv, BusTyped, Delivery
  <1>1. /\ receiver[r].pc = "mark" /\ UNCHANGED <<drafts, applied>>
        /\ inbox' = [inbox EXCEPT ![e] = "processed"] /\ receiver' = [receiver EXCEPT ![r] = Idle]
    BY <1>0 DEF MarkProcessed
  <1>2. /\ receiver' \in [Receivers -> Delivery] /\ receiver'[r].pc = "idle"
        /\ \A q \in Receivers \ {r} : receiver'[q] = receiver[q]
    BY <1>1, IdleDelivery DEF RowsInv, BusTyped
  <1>3. /\ inbox' \in [EventIds -> {"absent", "received", "processed"}] /\ inbox'[e] = "processed"
        /\ \A x \in EventIds \ {e} : inbox'[x] = inbox[x]
    BY <1>1 DEF RowsInv, BusTyped
  <1>4. BusTyped'
    BY <1>1, <1>2, <1>3 DEF RowsInv, BusTyped
  <1>5. applied[e] = 1
    BY <1>0, <1>1 DEF RowsInv, RowOwned
  <1>6. \A q \in Receivers \ {r} : receiver[q].pc \in {"dispatch", "mark"} => receiver[q].event # e
    BY <1>0, <1>1 DEF RowsInv, RowOwned
  <1>7. \A q \in Receivers : receiver[q].event \in EventIds
    BY DEF RowsInv, BusTyped, Delivery
  <1>8. RowOwned'
    BY <1>1, <1>2, <1>3, <1>6, <1>7 DEF RowsInv, RowOwned
  <1>9. ProcessedMeansApplied' /\ \A x \in EventIds : applied'[x] <= 1
    BY <1>1, <1>3, <1>5 DEF RowsInv, ProcessedMeansApplied
  <1> QED BY <1>4, <1>8, <1>9 DEF RowsInv

LEMMA ApplyRows ==
    ASSUME RowsInv, NEW r \in Receivers, Apply(r), NEW e \in EventIds, e = receiver[r].event
    PROVE  /\ RowsInv'
           /\ applied[e] = 0 /\ applied'[e] = 1 /\ \A x \in EventIds \ {e} : applied'[x] = applied[x]
  <1>1. /\ receiver[r].pc = "dispatch" /\ Routable(e) /\ UNCHANGED inbox
        /\ drafts' \subseteq drafts \union {KeyOf(e)}
        /\ applied' = [applied EXCEPT ![e] = @ + 1]
        /\ receiver' = [receiver EXCEPT ![r].pc = "mark"]
    BY DEF Apply
  <1>2. /\ receiver' \in [Receivers -> Delivery] /\ receiver'[r].pc = "mark" /\ receiver'[r].event = e
        /\ \A q \in Receivers \ {r} : receiver'[q] = receiver[q]
    BY <1>1 DEF RowsInv, BusTyped, Delivery
  <1>3. applied[e] = 0 /\ inbox[e] = "received"
    BY <1>1 DEF RowsInv, RowOwned
  <1>4. /\ applied' \in [EventIds -> Nat] /\ applied'[e] = 1
        /\ \A x \in EventIds \ {e} : applied'[x] = applied[x]
    BY <1>1, <1>3 DEF RowsInv, BusTyped
  <1>5. BusTyped'
    <2>1. KeyOf(e) \in {KeyOf(x) : x \in {x \in EventIds : Payload[x] # BadPayload}}
      BY <1>1 DEF Routable
    <2> QED BY <1>1, <1>2, <1>4, <2>1 DEF RowsInv, BusTyped
  <1>6. \A q \in Receivers \ {r} : receiver[q].pc \in {"dispatch", "mark"} => receiver[q].event # e
    BY <1>1 DEF RowsInv, RowOwned
  <1>7. \A q \in Receivers : receiver[q].event \in EventIds
    BY DEF RowsInv, BusTyped, Delivery
  <1>8. RowOwned'
    BY <1>1, <1>2, <1>3, <1>4, <1>6, <1>7 DEF RowsInv, RowOwned
  <1>9. ProcessedMeansApplied' /\ \A x \in EventIds : applied'[x] <= 1
    BY <1>1, <1>3, <1>4 DEF RowsInv, ProcessedMeansApplied
  <1> QED BY <1>3, <1>4, <1>5, <1>8, <1>9 DEF RowsInv

\* An applied event is one more, of its refund when it is one.
LEMMA OneMoreEvent ==
    ASSUME RowsInv, RefundsInv, NEW e \in EventIds, applied[e] = 0, applied'[e] = 1,
           \A x \in EventIds \ {e} : applied'[x] = applied[x], NEW f
    PROVE  /\ IsFiniteSet(AppliedEvents')
           /\ ~(RefOf(e) = f /\ RemapTopic(TopicOf[e]) = "payment.refunded")
                 => RefundsOf(f)' = RefundsOf(f)
           /\ RefOf(e) = f /\ RemapTopic(TopicOf[e]) = "payment.refunded"
                 => Cardinality(RefundsOf(f)') = Cardinality(RefundsOf(f)) + 1
  <1>1. AppliedEvents' = AppliedEvents \union {e}
    BY DEF AppliedEvents
  <1>2. IsFiniteSet(AppliedEvents) /\ IsFiniteSet(AppliedEvents')
    BY <1>1, FS_AddElement DEF RefundsInv
  <1>3. ASSUME ~(RefOf(e) = f /\ RemapTopic(TopicOf[e]) = "payment.refunded")
        PROVE  RefundsOf(f)' = RefundsOf(f)
    BY <1>3 DEF RefundsOf
  <1>4. ASSUME RefOf(e) = f, RemapTopic(TopicOf[e]) = "payment.refunded"
        PROVE  Cardinality(RefundsOf(f)') = Cardinality(RefundsOf(f)) + 1
    <2>1. RefundsOf(f)' = RefundsOf(f) \union {e} /\ e \notin RefundsOf(f)
      BY <1>4 DEF RefundsOf
    <2>2. RefundsOf(f) \subseteq AppliedEvents
      BY DEF RefundsOf, AppliedEvents
    <2>3. IsFiniteSet(RefundsOf(f))
      BY <1>2, <2>2, FS_Subset
    <2> QED BY <2>1, <2>3, FS_AddElement
  <1> QED BY <1>2, <1>3, <1>4

LEMMA ApplyInv == ASSUME BusInv, NEW r \in Receivers, Apply(r) PROVE BusInv'
  <1>0. PICK e \in EventIds : e = receiver[r].event
    BY DEF BusInv, RowsInv, BusTyped, Delivery
  <1>1. /\ RowsInv' /\ applied[e] = 0 /\ applied'[e] = 1
        /\ \A x \in EventIds \ {e} : applied'[x] = applied[x]
    BY <1>0, ApplyRows DEF BusInv
  <1>2. CASE RemapTopic(TopicOf[e]) = "payment.refunded"
    <2>1. CreateNote(RefOf(e)) /\ UNCHANGED requests /\ Routable(e)
      BY <1>0, <1>2 DEF Apply
    <2>2. RefOf(e) \in Refs
      BY <1>2, <2>1, RefsAssumption
    <2>3. NotesInv'
      BY <2>1, <2>2, CreateNoteInv DEF BusInv, NotesInv, NotesTypeOK
    <2>4. ASSUME NEW f \in Refs PROVE Cardinality(NotesOf(f)') = Cardinality(RefundsOf(f)')
      <3>1. Cardinality(NotesOf(f)) = Cardinality(RefundsOf(f))
        BY DEF BusInv, RefundsInv
      <3>2. CASE f = RefOf(e)
        BY <1>1, <1>2, <2>1, <2>2, <3>1, <3>2, OneMoreNote, OneMoreEvent DEF BusInv
      <3>3. CASE f # RefOf(e)
        BY <1>1, <1>2, <2>1, <2>2, <3>1, <3>3, OneMoreNote, OneMoreEvent DEF BusInv
      <3> QED BY <3>2, <3>3
    <2>5. IsFiniteSet(AppliedEvents')
      BY <1>1, OneMoreEvent DEF BusInv
    <2> QED BY <1>1, <2>3, <2>4, <2>5 DEF BusInv, RefundsInv
  <1>3. CASE RemapTopic(TopicOf[e]) # "payment.refunded"
    <2>1. UNCHANGED noteVars
      BY <1>0, <1>3 DEF Apply
    <2>2. NotesInv' /\ \A f \in Refs : NotesOf(f)' = NotesOf(f)
      BY <2>1, NotesUntouched DEF BusInv
    <2>3. IsFiniteSet(AppliedEvents') /\ \A f \in Refs : RefundsOf(f)' = RefundsOf(f)
      BY <1>1, <1>3, OneMoreEvent DEF BusInv
    <2> QED BY <1>1, <2>2, <2>3 DEF BusInv, RefundsInv
  <1> QED BY <1>2, <1>3
-----------------------------------------------------------------------------
LEMMA BusNext == BusInv /\ [Next]_vars => BusInv'
  <1> SUFFICES ASSUME BusInv, [Next]_vars PROVE BusInv'
    OBVIOUS
  <1>0. ASSUME UNCHANGED noteVars, UNCHANGED applied, RowsInv' PROVE BusInv'
    BY <1>0, NotesUntouched, RefundsStill DEF BusInv
  <1>1. ASSUME NEW r \in Receivers, NEW e \in EventIds, Deliver(r, e) PROVE BusInv'
    <2>1. PICK v \in Delivery : v = [pc |-> "select", event |-> e] /\ v.pc = "select"
      <3>1. [pc |-> "select", event |-> e] \in Delivery /\ [pc |-> "select", event |-> e].pc = "select"
        BY DEF Delivery
      <3> QED BY <3>1
    <2>2. /\ receiver' = [receiver EXCEPT ![r] = v] /\ requests' = requests + 1
          /\ requests < MaxRequests
          /\ UNCHANGED <<clock, notes, trail, issuer, inbox, drafts, applied>>
      BY <1>1, <2>1 DEF Deliver
    <2>3. RowsInv'
      BY <2>1, <2>2, ReceiverFree DEF BusInv, RowsInv, BusTyped
    <2>4. NotesInv'
      <3>1. requests' \in 0..MaxRequests /\ clock' \in Instants
        BY <2>2, CreditNoteAssumption DEF BusInv, NotesInv, NotesTypeOK
      <3> QED BY <2>2, <3>1, NotesStill DEF BusInv
    <2>5. RefundsInv'
      BY <2>2, RefundsStill DEF BusInv, NotesOf
    <2> QED BY <2>3, <2>4, <2>5 DEF BusInv
  <1>2. ASSUME NEW r \in Receivers, Select(r) PROVE BusInv'
    <2>1. receiver[r] \in Delivery
      BY DEF BusInv, RowsInv, BusTyped
    <2>2. PICK v \in Delivery : /\ v.pc \in {"idle", "insert"}
                                /\ receiver' = [receiver EXCEPT ![r] = v]
      <3>1. [receiver[r] EXCEPT !.pc = "insert"] \in Delivery
            /\ [receiver[r] EXCEPT !.pc = "insert"].pc = "insert"
        BY <2>1 DEF Delivery
      <3> QED BY <1>2, <3>1, IdleDelivery DEF Select
    <2>3. RowsInv'
      BY <1>2, <2>2, ReceiverFree DEF Select, BusInv, RowsInv, BusTyped
    <2> QED BY <1>0, <1>2, <2>3 DEF Select
  <1>3. ASSUME NEW r \in Receivers, Insert(r) PROVE BusInv'
    BY <1>0, <1>3, InsertRows DEF Insert, BusInv
  <1>4. ASSUME NEW r \in Receivers, Apply(r) PROVE BusInv'
    BY <1>4, ApplyInv
  <1>5. ASSUME NEW r \in Receivers, Reject(r) \/ Crash(r) PROVE BusInv'
    <2>1. /\ receiver' = [receiver EXCEPT ![r] = Idle]
          /\ UNCHANGED <<noteVars, inbox, drafts, applied>>
      BY <1>5 DEF Reject, Crash
    <2>3. RowsInv'
      BY <2>1, IdleDelivery, ReceiverFree DEF BusInv
    <2> QED BY <1>0, <2>1, <2>3
  <1>6. ASSUME NEW r \in Receivers, MarkProcessed(r) PROVE BusInv'
    BY <1>0, <1>6, MarkRows DEF MarkProcessed, BusInv
  <1>7. ASSUME UNCHANGED busVars PROVE RowsInv'
    BY <1>7 DEF BusInv, RowsInv, BusTyped, RowOwned, ProcessedMeansApplied
  <1>8. CASE NotesNext /\ UNCHANGED busVars
    BY <1>7, <1>8, NotesNextInv, RefsKept, RefundsStill DEF BusInv
  <1>9. CASE UNCHANGED vars
    BY <1>0, <1>7, <1>9
  <1> QED
    BY <1>1, <1>2, <1>3, <1>4, <1>5, <1>6, <1>8, <1>9 DEF Next, ReceiverStep

LEMMA BusInvariant == Spec => []BusInv
  BY BusInit, BusNext, PTL DEF Spec

\* Every variable stays within its type.
THEOREM BusTypeSafe == Spec => []TypeOK
  BY BusInvariant, BusInvMeans, PTL

\* dispatch_inbound_event executes every command at most once per event id,
\* and there is exactly one credit note per refund event that was applied.
THEOREM EventsAppliedOnce == Spec => []AppliedAtMostOnce
  BY BusInvariant, BusInvMeans, PTL

\* mark_processed runs only after the command of the event succeeded.
THEOREM ProcessedRowsApplied == Spec => []ProcessedMeansApplied
  <1>1. BusInv => ProcessedMeansApplied
    BY DEF BusInv, RowsInv
  <1> QED BY <1>1, BusInvariant, PTL

\* The numbers issue_credit_note gives out in a year are dense and unique,
\* unless a note was issued twice or in the first second of a year.
THEOREM NoteNumbersAreDense == Spec => []NoteNumbersDense
  <1>1. BusInv => NoteNumbersDense
    BY DEF BusInv, NotesInv
  <1> QED BY <1>1, BusInvariant, PTL
=============================================================================
