--------------------------- MODULE MCControlPlane ---------------------------
(***************************************************************************)
(* Model checking of ControlPlane: the claim of the console's help line.   *)
(***************************************************************************)
EXTENDS ControlPlane

\* A command typed at the console, "start" among them (minecera:81), does not
\* keep a supervisor from starting: no supervisor finds a regular file where
\* its FIFO belongs.  The code violates it: the shell's redirection creates
\* the file when the last supervisor has removed the FIFO.
StartStaysPossible == \A s \in Supervisors : phase[s] = "locked" => path # File
=============================================================================
