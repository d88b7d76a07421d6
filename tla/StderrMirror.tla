---------------------------- MODULE StderrMirror ----------------------------
(***************************************************************************)
(* The stderr mirror of a bed run (candy/plugin-check/bed_stderr.go): fd 2 *)
(* of the process is pointed at a pipe whose drain copies every chunk to   *)
(* the run's runner.stderr.log and to the stderr it replaced.  fd 2 belongs*)
(* to the process, so the captures of a roster's beds nest in each other.  *)
(*                                                                         *)
(* A pipe is named by the bed whose capture made it; a chunk is named by   *)
(* its writer.  dup(2) and dup2(2) are separate steps: the captures of two *)
(* beds are started by two goroutines and no lock covers the pair.         *)
(***************************************************************************)
EXTENDS Naturals, FiniteSets

CONSTANTS
    Beds,      \* the beds, as numbers in the order of their names
    Terminal,  \* the stderr the process was started with
    Forkers    \* the beds that leave behind a child which inherited fd 2

ASSUME TerminalAssumption == Terminal \notin Beds

VARIABLES
    fd2,      \* what file descriptor 2 refers to: the terminal or a pipe
    capture,  \* the state of each bed's capture
    orig,     \* the dup of fd 2 a capture keeps, Terminal or a pipe
    pw,       \* the pipes whose own write end is open
    kid,      \* the pipes a living child inherited
    done,     \* the pipes whose drain has returned (c.done is closed)
    pipe,     \* the chunks that sit in each pipe
    log,      \* the chunks in each runner.stderr.log
    shown,    \* the chunks the operator has seen
    written   \* history: the chunks ever written to fd 2

mirror == <<fd2, capture, orig, pw, kid, done, pipe, log, shown, written>>

CaptureStates ==
    {"none", "nil", "dupped", "live", "restored", "draining", "left", "closed"}

\* The captures whose file descriptors are open.
Open == {b \in Beds : capture[b] \in {"dupped", "live", "restored", "draining", "left"}}

MirrorTypeOK ==
    /\ fd2 \in Beds \cup {Terminal}
    /\ capture \in [Beds -> CaptureStates]
    /\ orig \in [Beds -> Beds \cup {Terminal}]
    /\ pw \subseteq Beds /\ kid \subseteq Beds /\ done \subseteq Beds
    /\ pipe \in [Beds -> SUBSET (Beds \cup {Terminal})]
    /\ log \in [Beds -> SUBSET (Beds \cup {Terminal})]
    /\ shown \subseteq Beds \cup {Terminal} /\ written \subseteq Beds \cup {Terminal}

MirrorInit ==
    /\ fd2 = Terminal
    /\ capture = [b \in Beds |-> "none"]
    /\ orig = [b \in Beds |-> Terminal]
    /\ pw = {} /\ kid = {} /\ done = {}
    /\ pipe = [b \in Beds |-> {}]
    /\ log = [b \in Beds |-> {}]
    /\ shown = {} /\ written = {}

\* A reference to the write end of p's pipe is open somewhere.
HasWriter(p) ==
    \/ fd2 = p
    \/ p \in pw
    \/ p \in kid
    \/ \E q \in Open : orig[q] = p

-----------------------------------------------------------------------------
(* startBedStderrCapture *)

\* The log file cannot be opened, or fd 2 not be duplicated: no mirror, no failure.
CaptureRefused(b) ==
    /\ capture[b] = "none"
    /\ capture' = [capture EXCEPT ![b] = "nil"]
    /\ UNCHANGED <<fd2, orig, pw, kid, done, pipe, log, shown, written>>

\* Dup BEFORE the redirect, then the pipe.
DupStderr(b) ==
    /\ capture[b] = "none"
    /\ capture' = [capture EXCEPT ![b] = "dupped"]
    /\ orig' = [orig EXCEPT ![b] = fd2]
    /\ pw' = pw \cup {b}
    /\ UNCHANGED <<fd2, kid, done, pipe, log, shown, written>>

RedirectStderr(b) ==
    /\ capture[b] = "dupped"
    /\ capture' = [capture EXCEPT ![b] = "live"]
    /\ fd2' = b
    /\ UNCHANGED <<orig, pw, kid, done, pipe, log, shown, written>>

-----------------------------------------------------------------------------
(* What is written to fd 2, and the drain *)

\* The chunk c goes to whatever fd 2 refers to.
WriteStderr(c) ==
    /\ c \notin written
    /\ written' = written \cup {c}
    /\ IF fd2 = Terminal
       THEN shown' = shown \cup {c} /\ UNCHANGED pipe
       ELSE pipe' = [pipe EXCEPT ![fd2] = @ \cup {c}] /\ UNCHANGED shown
    /\ UNCHANGED <<fd2, capture, orig, pw, kid, done, log>>

\* Write: one chunk out of the pipe, to the replaced stderr and to the file.
Mirror(p, c) ==
    /\ p \in Beds \ done
    /\ c \in pipe[p]
    /\ log' = [log EXCEPT ![p] = @ \cup {c}]
    /\ IF orig[p] = Terminal
       THEN /\ pipe' = [pipe EXCEPT ![p] = @ \ {c}]
            /\ shown' = shown \cup {c}
       ELSE /\ pipe' = [pipe EXCEPT ![p] = @ \ {c}, ![orig[p]] = @ \cup {c}]
            /\ UNCHANGED shown
    /\ UNCHANGED <<fd2, capture, orig, pw, kid, done, written>>

\* The drain sees EOF: the pipe is empty and nothing holds its write end.
DrainEnds(p) ==
    /\ p \in Open \ done
    /\ capture[p] # "dupped"
    /\ pipe[p] = {}
    /\ ~HasWriter(p)
    /\ done' = done \cup {p}
    /\ UNCHANGED <<fd2, capture, orig, pw, kid, pipe, log, shown, written>>

\* A child of the run inherits fd 2 and outlives the subcommand that forked it.
Inherit(b) ==
    /\ b \in Forkers
    /\ fd2 \in Beds \ kid
    /\ kid' = kid \cup {fd2}
    /\ UNCHANGED <<fd2, capture, orig, pw, done, pipe, log, shown, written>>

ChildExits(p) ==
    /\ p \in kid
    /\ kid' = kid \ {p}
    /\ UNCHANGED <<fd2, capture, orig, pw, done, pipe, log, shown, written>>

-----------------------------------------------------------------------------
(* close *)

\* fd 2 is restored first, then the write end is closed: in the other order the drain
\* could never end.
RestoreStderr(b) ==
    /\ capture[b] = "live"
    /\ capture' = [capture EXCEPT ![b] = "restored"]
    /\ fd2' = orig[b]
    /\ UNCHANGED <<orig, pw, kid, done, pipe, log, shown, written>>

CloseWriteEnd(b) ==
    /\ capture[b] = "restored"
    /\ capture' = [capture EXCEPT ![b] = "draining"]
    /\ pw' = pw \ {b}
    /\ UNCHANGED <<fd2, orig, kid, done, pipe, log, shown, written>>

\* Mutation: the close does not wait for the drain.
CloseUndrained(b) ==
    /\ capture[b] = "draining"
    /\ capture' = [capture EXCEPT ![b] = "closed"]
    /\ done' = done \cup {b}
    /\ pipe' = [pipe EXCEPT ![b] = {}]
    /\ UNCHANGED <<fd2, orig, pw, kid, log, shown, written>>

\* The drain has ended: everything is closed.
DrainJoined(b) ==
    /\ capture[b] = "draining"
    /\ b \in done
    /\ capture' = [capture EXCEPT ![b] = "closed"]
    /\ UNCHANGED <<fd2, orig, pw, kid, done, pipe, log, shown, written>>

\* bedStderrDrainGrace is over: the descriptors stay open on purpose.
GraceOver(b) ==
    /\ capture[b] = "draining"
    /\ b \notin done
    /\ capture' = [capture EXCEPT ![b] = "left"]
    /\ UNCHANGED <<fd2, orig, pw, kid, done, pipe, log, shown, written>>

\* close has returned, or there is no capture to close.
CloseReturned(b) == capture[b] \in {"nil", "left", "closed"}

\* The chunk sits in a pipe whose drain still runs.
InDrain(c, p) == c \in pipe[p] /\ p \notin done

=============================================================================
