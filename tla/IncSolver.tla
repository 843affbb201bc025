------------------------------- MODULE IncSolver -------------------------------
(***************************************************************************)
(* The checker and its SAT solver (src/inc_solver.cc), two processes and   *)
(* two pipes.  The checker collects words in a buffer it flushes when it   *)
(* is full; the solver reads clauses up to an empty one, then commands,    *)
(* then answers, and waits for the next clauses.  Literals, the end of a   *)
(* clause and the commands are all plain integers.                         *)
(*                                                                         *)
(* ConstGen::process makes a new solver, sends the clauses, freezes the    *)
(* goal variables and asks; canReuseEncoding adds a clause and asks again. *)
(* A clause that is sent has a literal: addConstraint asserts that no      *)
(* formula is false.  The solver's program is not part of the repository.  *)
(*                                                                         *)
(* A read or write of a pipe moves some words, at least one, and blocks    *)
(* when it can move none.                                                  *)
(***************************************************************************)
EXTENDS Integers, FiniteSets, SequencesExt

CONSTANTS NumVars,     \* the variables of the encoding
          Clause,      \* the clauses it may send, sequences of literals
          Frozen,      \* the goal variables
          BufferSize,  \* IS_BUFFERSIZE
          PipeSize,    \* the words a pipe holds
          MaxAsked     \* bounds the questions asked of one solver

IS_UNSAT     == 0
IS_SAT       == 1
IS_INDETER   == 2
IS_FREEZE    == 3
IS_RUNSOLVER == 4

Vars    == 1 .. NumVars
Literal == Vars \cup {-v : v \in Vars}

ASSUME SolverAssumption ==
  /\ Clause \subseteq Seq(Literal) \ {<<>>}
  /\ Frozen \subseteq Vars
  /\ {NumVars, BufferSize, PipeSize, MaxAsked} \subseteq Nat \ {0}

VARIABLES
  phase,      \* of the checker: "off", "adding", "asking", "reading", "answered", "killed"
  todo,       \* the words it has still to add to the buffer
  buffer,     \* the words collected
  flushing,   \* flushBuffer is running
  toSolver, fromSolver,   \* the pipes
  got,        \* the words read of the answer
  asked,      \* the questions asked of this solver
  sent,       \* the clauses ConstGen has added for this solver
  alive,      \* the solver process exists
  mode,       \* what it reads next: "clauses", "commands", "freeze", or it is "answering"
  part,       \* the clause it is reading
  known,      \* the clauses it has taken
  frozen,     \* the variables it keeps
  out         \* the words of the answer it has still to write

checker == <<phase, todo, buffer, flushing, got, asked, sent>>
solver  == <<alive, mode, part, known, frozen, out>>
pipes   == <<toSolver, fromSolver>>
vars    == <<checker, solver, pipes>>

TypeOK ==
  /\ phase \in {"off", "adding", "asking", "reading", "answered", "killed"}
  /\ todo \in Seq(Int) /\ buffer \in Seq(Int) /\ got \in Seq(Int)
  /\ toSolver \in Seq(Int) /\ fromSolver \in Seq(Int)
  /\ part \in Seq(Int) /\ out \in Seq(Int)
  /\ Len(buffer) <= BufferSize
  /\ Len(toSolver) <= PipeSize /\ Len(fromSolver) <= PipeSize
  /\ flushing \in BOOLEAN /\ alive \in BOOLEAN
  /\ asked \in 0 .. MaxAsked
  /\ sent \subseteq Clause
  /\ mode \in {"clauses", "commands", "freeze", "answering"}
  /\ frozen \subseteq Int

Init ==
  /\ phase = "off"
  /\ todo = <<>> /\ buffer = <<>> /\ flushing = FALSE
  /\ got = <<>> /\ asked = 0 /\ sent = {}
  /\ toSolver = <<>> /\ fromSolver = <<>>
  /\ alive = FALSE /\ mode = "clauses" /\ part = <<>> /\ known = {} /\ frozen = {} /\ out = <<>>

-------------------------------------------------------------------------------
(***************************************************************************)
(* The checker.                                                            *)
(***************************************************************************)
\* Fault: reset without setting the offset back.
createSolver_offset ==
  /\ phase = "off"
  /\ phase' = "adding"
  /\ toSolver' = <<>> /\ fromSolver' = <<>>
  /\ alive' = TRUE /\ mode' = "clauses" /\ part' = <<>> /\ known' = {} /\ frozen' = {} /\ out' = <<>>
  /\ UNCHANGED <<todo, buffer, flushing, got, asked, sent>>

\* The constructor: an empty buffer, new pipes, a new process.
createSolver ==
  /\ phase = "off"
  /\ phase' = "adding"
  /\ buffer' = <<>>
  /\ toSolver' = <<>> /\ fromSolver' = <<>>
  /\ alive' = TRUE /\ mode' = "clauses" /\ part' = <<>> /\ known' = {} /\ frozen' = {} /\ out' = <<>>
  /\ UNCHANGED <<todo, flushing, got, asked, sent>>

\* The destructor.  process drops a solver it has not asked, too.
killSolver ==
  /\ phase \in {"adding", "answered"}
  /\ todo = <<>> /\ ~flushing
  /\ phase' = "off"
  /\ alive' = FALSE
  /\ asked' = 0 /\ sent' = {} /\ got' = <<>>
  /\ UNCHANGED <<todo, buffer, flushing, pipes, mode, part, known, frozen, out>>

addConstraint(c) ==
  /\ phase \in {"adding", "answered"}
  /\ todo = <<>>
  /\ c \notin sent
  /\ asked < MaxAsked
  /\ phase' = "adding"
  /\ todo' = Append(c, 0)
  /\ sent' = sent \cup {c}
  /\ got' = <<>>
  /\ UNCHANGED <<buffer, flushing, asked, solver, pipes>>

\* finishedClauses; then process, not canReuseEncoding, freezes the goal variables.
FreezeWords ==
  [i \in 1 .. 2 * Cardinality(Frozen) |-> IF i % 2 = 1 THEN IS_FREEZE ELSE SetToSeq(Frozen)[i \div 2]]

Question == <<0>> \o (IF asked = 0 THEN FreezeWords ELSE <<>>) \o <<IS_RUNSOLVER>>

solve ==
  /\ phase = "adding"
  /\ todo = <<>>
  /\ phase' = "asking"
  /\ todo' = Question
  /\ asked' = asked + 1
  /\ UNCHANGED <<buffer, flushing, got, sent, solver, pipes>>

addClauseLiteral ==
  /\ todo # <<>> /\ ~flushing
  /\ buffer' = Append(buffer, Head(todo))
  /\ todo' = Tail(todo)
  /\ flushing' = (Len(buffer') = BufferSize)
  /\ UNCHANGED <<phase, got, asked, sent, solver, pipes>>

\* Fault: the question waits in the buffer.
startSolve_unflushed ==
  /\ phase = "asking" /\ todo = <<>> /\ ~flushing
  /\ phase' = "reading"
  /\ UNCHANGED <<todo, buffer, flushing, got, asked, sent, solver, pipes>>

\* startSolve flushes what is left after the last word, nothing if that filled the buffer.
startSolve ==
  /\ phase = "asking" /\ todo = <<>> /\ ~flushing
  /\ flushing' = (buffer # <<>>)
  /\ phase' = "reading"
  /\ UNCHANGED <<todo, buffer, got, asked, sent, solver, pipes>>

\* Fault: what a write did not take is forgotten.
flushBuffer_short ==
  /\ flushing /\ alive
  /\ \E n \in 1 .. Len(buffer) : Len(toSolver) + n <= PipeSize /\ toSolver' = toSolver \o SubSeq(buffer, 1, n)
  /\ buffer' = <<>>
  /\ flushing' = FALSE
  /\ UNCHANGED <<phase, todo, got, asked, sent, fromSolver, solver>>

\* One write of flushBuffer.  Nobody reads: SIGPIPE ends the checker.
flushBuffer ==
  /\ flushing
  /\ IF alive
     THEN \E n \in 1 .. Len(buffer) :
            /\ Len(toSolver) + n <= PipeSize
            /\ toSolver' = toSolver \o SubSeq(buffer, 1, n)
            /\ buffer' = SubSeq(buffer, n + 1, Len(buffer))
            /\ flushing' = (n < Len(buffer))
            /\ UNCHANGED phase
     ELSE phase' = "killed" /\ flushing' = FALSE /\ UNCHANGED <<buffer, toSolver>>
  /\ todo' = IF alive THEN todo ELSE <<>>
  /\ UNCHANGED <<got, asked, sent, fromSolver, solver>>

\* The words of the answer: a result, and for SAT the number of values and the values.
AnswerLength(words) ==
  IF words = <<>> \/ words[1] # IS_SAT THEN 1 ELSE IF Len(words) = 1 THEN 2 ELSE 2 + words[2]

\* One read of readSolver, of no more than the words still wanted.  runSolver exits when the
\* solver does not know.
getSolution ==
  /\ phase = "reading" /\ ~flushing
  /\ \E n \in 1 .. Len(fromSolver) :
       /\ Len(got) + n <= AnswerLength(got)
       /\ got' = got \o SubSeq(fromSolver, 1, n)
       /\ fromSolver' = SubSeq(fromSolver, n + 1, Len(fromSolver))
  /\ phase' = IF got'[1] = IS_INDETER THEN "killed"
              ELSE IF Len(got') = AnswerLength(got') THEN "answered" ELSE phase
  /\ UNCHANGED <<todo, buffer, flushing, asked, sent, toSolver, solver>>

-------------------------------------------------------------------------------
(***************************************************************************)
(* The solver, as the checker needs it to be.                              *)
(***************************************************************************)
LitTrue(l, a)      == IF l > 0 THEN a[l] ELSE ~a[-l]
ClauseTrue(c, a)   == \E i \in DOMAIN c : LitTrue(c[i], a)
Satisfies(a, C)    == \A c \in C : ClauseTrue(c, a)
Solutions(C)       == {a \in [Vars -> BOOLEAN] : Satisfies(a, C)}
Bit(b)             == IF b THEN 1 ELSE 0

\* The commands after the clauses; the answer can be any solution, or that it does not know.
Command(word) ==
  CASE word = IS_FREEZE    -> mode' = "freeze" /\ out' = out
    [] word = IS_RUNSOLVER ->
         /\ mode' = "answering"
         /\ \/ out' = <<IS_INDETER>>
            \/ Solutions(known) = {} /\ out' = <<IS_UNSAT>>
            \/ \E a \in Solutions(known) : out' = <<IS_SAT, NumVars>> \o [v \in Vars |-> Bit(a[v])]
    [] OTHER -> UNCHANGED <<mode, out>>

TakeWord(word) ==
  \/ /\ mode = "clauses" /\ word # 0
     /\ part' = Append(part, word)
     /\ UNCHANGED <<mode, known, frozen, out>>
  \/ /\ mode = "clauses" /\ word = 0 /\ part # <<>>
     /\ known' = known \cup {part} /\ part' = <<>>
     /\ UNCHANGED <<mode, frozen, out>>
  \/ /\ mode = "clauses" /\ word = 0 /\ part = <<>>
     /\ mode' = "commands"
     /\ UNCHANGED <<part, known, frozen, out>>
  \/ /\ mode = "freeze"
     /\ frozen' = frozen \cup {word} /\ mode' = "commands"
     /\ UNCHANGED <<part, known, out>>
  \/ /\ mode = "commands"
     /\ Command(word)
     /\ UNCHANGED <<part, known, frozen>>

SolverReads ==
  /\ alive /\ mode # "answering"
  /\ toSolver # <<>>
  /\ TakeWord(Head(toSolver))
  /\ toSolver' = Tail(toSolver)
  /\ UNCHANGED <<checker, alive, fromSolver>>

SolverWrites ==
  /\ alive /\ mode = "answering"
  /\ Len(fromSolver) < PipeSize
  /\ fromSolver' = Append(fromSolver, Head(out))
  /\ out' = Tail(out)
  /\ mode' = IF Len(out) = 1 THEN "clauses" ELSE mode
  /\ UNCHANGED <<checker, alive, part, known, frozen, toSolver>>

\* It runs out of memory, or somebody kills it.
SolverDies ==
  /\ alive
  /\ alive' = FALSE
  /\ UNCHANGED <<checker, mode, part, known, frozen, out, pipes>>

\* readSolver at the end of the file: read returns 0 again and again.
readSolverAtEnd ==
  /\ phase = "reading" /\ ~flushing
  /\ ~alive /\ fromSolver = <<>>
  /\ UNCHANGED vars

CheckerCalls ==
  \/ createSolver
  \/ killSolver
  \/ \E c \in Clause : addConstraint(c)
  \/ solve

CheckerSteps == addClauseLiteral \/ startSolve \/ flushBuffer \/ getSolution
SolverSteps  == SolverReads \/ SolverWrites

Next == CheckerCalls \/ CheckerSteps \/ SolverSteps \/ SolverDies \/ readSolverAtEnd

Spec == Init /\ [][Next]_vars

(***************************************************************************)
(* Both processes are run by the operating system: a call that is under    *)
(* way goes on, and the solver reads and writes.  Nothing says that the    *)
(* checker makes another call.                                             *)
(***************************************************************************)
FairSpec == Spec /\ WF_vars(CheckerSteps) /\ WF_vars(SolverSteps)
-------------------------------------------------------------------------------
(***************************************************************************)
(* When the solver answers it has exactly the clauses ConstGen added and   *)
(* keeps exactly the goal variables: no literal was taken for a command,   *)
(* no command for a literal, nothing was left in the buffer or came from   *)
(* an earlier solver.                                                      *)
(***************************************************************************)
EncodingArrives == alive /\ mode = "answering" => known = sent /\ frozen = Frozen

(***************************************************************************)
(* The answer ConstGen works with is right for what it has added: a        *)
(* solution satisfies every clause, UNSAT means there is none.             *)
(***************************************************************************)
AnswerIsRight ==
  phase = "answered" =>
    IF got[1] = IS_UNSAT
    THEN Solutions(sent) = {}
    ELSE [v \in Vars |-> got[v + 2] = 1] \in Solutions(sent)

(***************************************************************************)
(* A question is answered, however small the pipes are, unless the solver  *)
(* dies.  (If it does, read returns 0 and readSolver never returns:        *)
(* src/inc_solver.cc:97.)                                                  *)
(***************************************************************************)
SolveReturns == phase = "asking" ~> phase \in {"answered", "killed"} \/ ~alive
================================================================================
