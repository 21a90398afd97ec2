------------------------------ MODULE Borrowing ------------------------------
(***************************************************************************)
(* Who may use the Rust generator while Python code runs inside of a call.   *)
(* Methods that take &mut self hold it and still run Python code: that of the *)
(* collection given to random_elements, of the dates given to date_between.   *)
(* Those with a tzinfo take the Python object, run the code of their          *)
(* arguments and of the zone, and borrow the generator only for the draw.      *)
(* Python code may call again, catch what a call raises, or give way to       *)
(* another thread; between two pieces of it the binding is atomic.            *)
(***************************************************************************)
EXTENDS Integers, Sequences

CONSTANTS
  Threads,    \* Python threads that share a generator
  MaxNesting  \* bound on the calls of a thread, one within the other

ASSUME BorrowingAssumption == MaxNesting \in Nat \ {0}

VARIABLES
  calls,     \* the calls of each thread, the outermost first: [kind, drawn]
  borrower,  \* the call that holds &mut: [thread, nesting], or NoOne
  refusal    \* what the last call came to: "none", "RuntimeError" or "PanicException"

borrowVars == <<calls, borrower, refusal>>

Kinds == {"mut_self", "tzinfo"}
NoOne == [thread |-> "none", nesting |-> 0]
BorrowInit == calls = [t \in Threads |-> <<>>] /\ borrower = NoOne /\ refusal = "none"

Depth(t) == Len(calls[t])
Innermost(t) == calls[t][Depth(t)]

\* Mutant of HeldThroughout: the methods with a tzinfo take &mut self as well.
HeldByAll(kind) == TRUE
HeldThroughout(kind) == kind = "mut_self"

\* A call, by the thread's own code or by the code that its last call runs.
EnterCall(t, kind) ==
  /\ Depth(t) < MaxNesting
  /\ IF HeldThroughout(kind) /\ borrower # NoOne
       THEN refusal' = "RuntimeError" /\ UNCHANGED <<calls, borrower>>
       ELSE /\ calls' = [calls EXCEPT ![t] = Append(@, [kind |-> kind, drawn |-> FALSE])]
            /\ borrower' = IF HeldThroughout(kind) THEN [thread |-> t, nesting |-> Depth(t) + 1]
                           ELSE borrower
            /\ refusal' = "none"

\* The innermost call ends, and with it what it borrowed.
Returned(t) ==
  /\ calls' = [calls EXCEPT ![t] = SubSeq(@, 1, Depth(t) - 1)]
  /\ borrower' = IF borrower = [thread |-> t, nesting |-> Depth(t)] THEN NoOne ELSE borrower

\* The arguments are converted: slf.borrow_mut() panics if there is a borrower.
DrawInCall(t) ==
  /\ Depth(t) > 0 /\ ~Innermost(t).drawn
  /\ IF ~HeldThroughout(Innermost(t).kind) /\ borrower # NoOne
       THEN Returned(t) /\ refusal' = "PanicException"
       ELSE /\ calls' = [calls EXCEPT ![t][Depth(t)].drawn = TRUE]
            /\ refusal' = "none" /\ UNCHANGED borrower

\* What was drawn is made a Python object, or the code of an argument raises.
LeaveCall(t) ==
  /\ Depth(t) > 0
  /\ Returned(t) /\ refusal' = "none"

BorrowNext ==
  \E t \in Threads :
    \/ \E kind \in Kinds : EnterCall(t, kind)
    \/ DrawInCall(t)
    \/ LeaveCall(t)

BorrowSpec == BorrowInit /\ [][BorrowNext]_borrowVars

-----------------------------------------------------------------------------
(* Properties                                                              *)

\* The calls under way that take &mut self.
Holding ==
  {c \in [thread : Threads, nesting : 1..MaxNesting] :
     c.nesting <= Depth(c.thread) /\ calls[c.thread][c.nesting].kind = "mut_self"}

\* However calls are nested, interleaved by threads and left by exceptions, no
\* two draw at once and none keeps the generator: only methods that take &mut
\* self hold it, one at a time and no longer than they run, and a call is
\* refused only while one of them runs Python code.  The code of a date or a
\* zone that is given to a method with a tzinfo may use the generator itself.
RefusedOnlyWithin ==
  /\ Holding = IF borrower = NoOne THEN {} ELSE {borrower}
  /\ refusal # "none" => Holding # {}
=============================================================================
