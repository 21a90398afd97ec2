-------------------------------- MODULE Draws --------------------------------
(***************************************************************************)
(* The Rust core as its callers see it: sampling, table picks, random_int,   *)
(* text, addresses, dates, and templates with all that they render, behind    *)
(* one &mut self.  A call borrows the generator until it returns, so it        *)
(* starts when no other is under way; what Python code may do while it runs     *)
(* inside of a call is Borrowing's subject, which looks at no draw in detail.  *)
(***************************************************************************)
EXTENDS Sampling, RandomInts, LoremText, Networks, Calendar, Tokens,
        Placeholders, Rendering, LocaleData, DateStrings, Borrowing

drawVars ==
  <<sampleVars, tableVars, intVars, textVars, netVars, dateVars, tokenVars,
    fillVars, renderVars, dataVars, spanVars, borrowVars>>

DrawInit ==
  /\ SampleInit /\ TableInit /\ IntInit /\ TextInit /\ NetInit /\ DateInit /\ TokenInit
  /\ FillInit /\ RenderInit /\ DataInit /\ SpanInit /\ BorrowInit

\* &mut self is borrowed by a call of this kind: none of another is under way.
InPython == IF \A t \in Threads : calls[t] = <<>> THEN "idle" ELSE "in Python"
Rest(call, vars) == call = "idle" /\ UNCHANGED vars
Borrowed(kind) ==
  /\ IF kind = "sample" THEN TRUE ELSE Rest(sampling, sampleVars)
  /\ IF kind = "table" THEN TRUE ELSE Rest(picking, tableVars)
  /\ IF kind = "int" THEN TRUE ELSE Rest(rolling, intVars)
  /\ IF kind = "text" THEN TRUE ELSE Rest(writing, textVars)
  /\ IF kind = "net" THEN TRUE ELSE Rest(addressing, netVars)
  /\ IF kind = "date" THEN TRUE ELSE Rest(dating, dateVars)
  /\ IF kind = "token" THEN TRUE ELSE Rest(reading, tokenVars)
  /\ IF kind = "fill" THEN TRUE ELSE Rest(filling, fillVars)
  /\ IF kind = "render" THEN TRUE ELSE Rest(rendering, renderVars)
  /\ IF kind = "data" THEN TRUE ELSE Rest(compiling, dataVars)
  /\ IF kind = "span" THEN TRUE ELSE Rest(spanning, spanVars)
  /\ IF kind = "python" THEN TRUE ELSE Rest(InPython, borrowVars)

Samples == Borrowed("sample") /\ SampleNext
TablePicks == Borrowed("table") /\ TableNext
Ints == Borrowed("int") /\ IntNext
Texts == Borrowed("text") /\ TextNext
Networking == Borrowed("net") /\ NetNext
Dates == Borrowed("date") /\ DateNext
Templates == Borrowed("token") /\ TokenNext
Substitutions == Borrowed("fill") /\ FillNext
Renderings == Borrowed("render") /\ RenderNext
LocaleTables == Borrowed("data") /\ DataNext
RelativeDates == Borrowed("span") /\ SpanNext
PythonCode == Borrowed("python") /\ BorrowNext

DrawNext ==
  \/ Samples \/ TablePicks \/ Ints \/ Texts \/ Networking \/ Dates \/ Templates
  \/ Substitutions \/ Renderings \/ LocaleTables \/ RelativeDates \/ PythonCode

\* A call of text, and one that renders templates, goes on running.
DrawSpec ==
  /\ DrawInit /\ [][DrawNext]_drawVars
  /\ WF_drawVars(WriteText /\ Borrowed("text"))
  /\ WF_drawVars(RenderStep /\ Borrowed("render"))
==============================================================================
