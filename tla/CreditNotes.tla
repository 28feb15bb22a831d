---------------------------- MODULE CreditNotes ----------------------------
(***************************************************************************)
(* Credit notes (crates/commands/src/credit.rs): create, issue, and the    *)
(* number that an issue takes from a count outside its transaction.  The   *)
(* amount, the currency and the reason are copied through and decide       *)
(* nothing.  The announcement after each commit is best effort and read by *)
(* no one here; the history rows are the outbox of OutboxRelay.            *)
(***************************************************************************)
EXTENDS Naturals, Sequences, FiniteSets, CreditNoteFsm

CONSTANTS
    Workers,       \* requests to issue that may be in flight
    Refs,          \* values of refund_ref
    NoRef,         \* a note that no refund caused
    MaxInstant,    \* bound on the clock
    YearOf,        \* the year of an instant
    FirstSecond,   \* the instants in the first second of a year
    MaxNotes,      \* bound on the notes
    MaxRequests    \* bound on the requests from outside

Instants == 1..MaxInstant

ASSUME CreditNoteAssumption ==
    /\ NoRef \notin Refs
    /\ MaxInstant \in Nat \ {0}
    /\ YearOf \in [Instants -> Nat \ {0}]
    /\ \A s, t \in Instants : s <= t => YearOf[s] <= YearOf[t]
    /\ FirstSecond \subseteq Instants
    /\ MaxNotes \in Nat /\ MaxRequests \in Nat

VARIABLES
    clock,    \* the injected clock
    notes,    \* the credit_notes table, by insertion
    trail,    \* the credit_note_state_history table, by note
    issuer,   \* the issue a worker is in
    requests  \* requests from outside so far

noteVars == <<clock, notes, trail, issuer, requests>>
-----------------------------------------------------------------------------
NoNumber == [year |-> 0, n |-> 0]
NumberVal == [year : Nat, n : Nat]
Note == [state : {"Draft", "Issued"}, number : NumberVal, issuedAt : Nat,
         ref : Refs \union {NoRef}]
NoteHistoryRow == [from : {"Absent", "Draft"}, to : {"Draft", "Issued"},
                   at : Nat, bus : Refs \union {NoRef}]

\* An issue: the row it read, the clock at the read, and the number it took.
NewDraft(ref) == [state |-> "Draft", number |-> NoNumber, issuedAt |-> 0, ref |-> ref]
NoIssue == [pc |-> "idle", note |-> 0, row |-> NewDraft(NoRef), at |-> 0, number |-> NoNumber]

NotesInit ==
    /\ clock = 1
    /\ notes = <<>>
    /\ trail = <<>>
    /\ issuer = [w \in Workers |-> NoIssue]
    /\ requests = 0
-----------------------------------------------------------------------------
\* Mutant of CreateNote: no history row.
CreateNoteUnrecorded(ref) ==
    /\ Len(notes) < MaxNotes
    /\ notes' = Append(notes, NewDraft(ref))
    /\ UNCHANGED <<clock, issuer, trail>>

\* create_credit_note.  The invoice is only asked for its existence and its
\* currency, neither of which changes; the caller's key is not looked up.
CreateNote(ref) ==
    /\ Len(notes) < MaxNotes
    /\ notes' = Append(notes, NewDraft(ref))
    /\ trail' = Append(trail, <<[from |-> "Absent", to |-> "Draft", at |-> clock, bus |-> ref]>>)
    /\ UNCHANGED <<clock, issuer>>

\* A request of an operator or an agent.
CreateManually ==
    /\ requests < MaxRequests
    /\ requests' = requests + 1
    /\ CreateNote(NoRef)

\* issue_credit_note: the row is read and the gate passed ...
IssueLoad(w, n) ==
    /\ issuer[w].pc = "idle" /\ requests < MaxRequests
    /\ NoteNextState(notes[n].state) # "Illegal"
    /\ requests' = requests + 1
    /\ issuer' = [issuer EXCEPT ![w] =
          [pc |-> "count", note |-> n, row |-> notes[n], at |-> clock, number |-> NoNumber]]
    /\ UNCHANGED <<clock, notes, trail>>

\* issued_at holds to_rfc3339() and is compared as a string with bounds in
\* another notation: the first second of a year sorts below the year.
NoteYear(t) == IF t \in FirstSecond THEN YearOf[t] - 1 ELSE YearOf[t]

\* Mutant of CountNotes: drafts are counted too.
CountAllNotes(y) == Cardinality({n \in DOMAIN notes : notes[n].issuedAt = 0 \/ NoteYear(notes[n].issuedAt) = y})

\* count_credit_notes_issued_in_year
CountNotes(y) ==
    Cardinality({n \in DOMAIN notes : notes[n].issuedAt # 0 /\ NoteYear(notes[n].issuedAt) = y})

\* ... the clock is read and the year's notes are counted ...
IssueCount(w) ==
    /\ issuer[w].pc = "count"
    /\ \E t \in issuer[w].at..clock :
          issuer' = [issuer EXCEPT
              ![w].pc = "commit", ![w].at = t,
              ![w].number = [year |-> YearOf[t], n |-> CountNotes(YearOf[t]) + 1]]
    /\ UNCHANGED <<clock, notes, trail, requests>>

\* number TEXT UNIQUE
NumberFree(w) ==
    \A n \in DOMAIN notes : n # issuer[w].note => notes[n].number # issuer[w].number

\* ... and row and history row are written, or the unique column rejects both.
IssueCommit(w) ==
    LET i == issuer[w]
    IN  /\ i.pc = "commit"
        /\ \/ /\ NumberFree(w)
              /\ notes' = [notes EXCEPT ![i.note] =
                    [i.row EXCEPT !.state = NoteNextState(i.row.state),
                                  !.number = i.number, !.issuedAt = i.at]]
              /\ trail' = [trail EXCEPT ![i.note] = Append(@,
                    [from |-> i.row.state, to |-> "Issued", at |-> i.at, bus |-> NoRef])]
           \/ ~NumberFree(w) /\ UNCHANGED <<notes, trail>>
        /\ issuer' = [issuer EXCEPT ![w] = NoIssue]
        /\ UNCHANGED <<clock, requests>>

\* A statement fails or the process stops before the commit.
IssueFail(w) ==
    /\ issuer[w].pc # "idle"
    /\ issuer' = [issuer EXCEPT ![w] = NoIssue]
    /\ UNCHANGED <<clock, notes, trail, requests>>

ClockTick ==
    /\ clock < MaxInstant
    /\ clock' = clock + 1
    /\ UNCHANGED <<notes, trail, issuer, requests>>

NotesNext ==
    \/ ClockTick
    \/ CreateManually
    \/ \E w \in Workers :
          \/ \E n \in DOMAIN notes : IssueLoad(w, n)
          \/ IssueCount(w) \/ IssueCommit(w) \/ IssueFail(w)
-----------------------------------------------------------------------------
IssuerOK(w) ==
    /\ issuer[w].pc \in {"idle", "count", "commit"}
    /\ issuer[w].row \in Note /\ issuer[w].number \in NumberVal
    /\ issuer[w].pc # "idle" => issuer[w].note \in DOMAIN notes /\ issuer[w].at \in Instants

\* Every variable stays within its type.
NotesTypeOK ==
    /\ clock \in Instants
    /\ notes \in Seq(Note) /\ Len(notes) <= MaxNotes
    /\ trail \in Seq(Seq(NoteHistoryRow)) /\ Len(trail) = Len(notes)
    /\ \A w \in Workers : IssuerOK(w)
    /\ requests \in 0..MaxRequests

\* A note was issued twice: two requests had both read it as a draft.
IssuedTwice ==
    \E n \in DOMAIN notes : Cardinality({i \in DOMAIN trail[n] : trail[n][i].to = "Issued"}) > 1

\* The two things that upset the count: an overlap on one note, and the first
\* second of a year.
CountUpset == IssuedTwice \/ \E n \in DOMAIN notes : notes[n].issuedAt \in FirstSecond

NumberedNotes(y) == {n \in DOMAIN notes : notes[n].number.year = y}

\* The numbers of a year are 1, 2, 3, ... without a gap and without a repetition,
\* whatever requests to issue different notes race and wherever the year turns,
\* unless one note was issued twice by overlapping requests or a note was
\* issued in the first second of a year: nothing else can disturb the count.
NoteNumbersDense ==
    CountUpset \/ \A y \in {YearOf[t] : t \in Instants} :
        {notes[n].number.n : n \in NumberedNotes(y)} = 1..Cardinality(NumberedNotes(y))
-----------------------------------------------------------------------------
(* What an issue in flight relies on: the strengthening for the proofs *)

IssueVal == [pc : {"idle", "count", "commit"}, note : Nat, row : Note, at : Nat,
             number : NumberVal]

\* An issue holds the row of its note as it was when it was a draft.
IssuerSound(w) ==
    issuer[w].pc # "idle" =>
        issuer[w].row = NewDraft(notes[issuer[w].note].ref)

NotesShape == issuer \in [Workers -> IssueVal] /\ \A w \in Workers : IssuerSound(w)

\* A draft has no number and no record of an issue; an issued note has both.
NoteCoherent(n) ==
    \/ /\ notes[n].state = "Draft" /\ notes[n].number = NoNumber /\ notes[n].issuedAt = 0
       /\ \A i \in DOMAIN trail[n] : trail[n][i].to # "Issued"
    \/ /\ notes[n].state = "Issued" /\ notes[n].issuedAt \in Instants
       /\ notes[n].number.year = YearOf[notes[n].issuedAt]
       /\ \E i \in DOMAIN trail[n] : trail[n][i].to = "Issued"

\* The number an issue is about to write is at most one past the year's notes.
NoteNumberInReach(w) ==
    issuer[w].pc = "commit" =>
        /\ issuer[w].number.year = YearOf[issuer[w].at]
        /\ CountUpset \/ issuer[w].number.n \in
                             1..(Cardinality(NumberedNotes(issuer[w].number.year)) + 1)

NotesCounted ==
    /\ \A n \in DOMAIN notes : NoteCoherent(n)
    /\ \A w \in Workers : NoteNumberInReach(w)
=============================================================================
