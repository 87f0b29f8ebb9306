---------------------------- MODULE MCCliProcess -----------------------------
(* A process of the command line or MCP server for TLC.  A behaviour is    *)
(* about one of three sides of it: the process at work (CliProcess: a      *)
(* worker that embeds two texts and an operation that embeds one, on one   *)
(* or two threads), the command around it (Command), or how long one of    *)
(* its workers sleeps (WorkerPace); the variables of the others rest.      *)
EXTENDS CliProcess, Command, WorkerPace

CONSTANTS w1, o1, j1, j2, j3

VARIABLE about      \* "work" | "command" | "pace"

MCOwner == [j \in Job |-> IF j \in {j1, j2} THEN w1 ELSE o1]

everything == <<allVars, commandVars, paceVars, about>>

SideInit ==
    /\ about \in {"work", "command", "pace"}
    /\ ProcessInit /\ CommandInit /\ PaceInit
    /\ about # "command" => kind = "command"
    /\ about # "pace" => interval = CHOOSE i \in Interval : TRUE

Work(A) == about = "work" /\ A /\ UNCHANGED <<commandVars, paceVars, about>>
Whole(A) == about = "command" /\ A /\ UNCHANGED <<allVars, paceVars, about>>
Pace(A) == about = "pace" /\ A /\ UNCHANGED <<allVars, commandVars, about>>

SideNext == Work(ProcessNext) \/ Whole(CommandNext) \/ Pace(PaceNext)

(* The fairness of FairProcessSpec and of FairCommandSpec.                 *)
SideSpec ==
    /\ SideInit /\ [][SideNext]_everything
    /\ WF_everything(Work(SettledThenShut \/ CloseAlone))
    /\ \A w \in Worker :
          WF_everything(Work(LoopAlone(w))) /\ WF_everything(Work(BatchSettles(w)))
    /\ \A o \in Op : WF_everything(Work(OpSettles(o)))
    /\ \A s \in Pool!Slot : WF_everything(Work(Message(s)))
    /\ WF_everything(Work(DeliverOne))
    /\ WF_everything(Whole(GraceEnds)) /\ WF_everything(Whole(Released))
    /\ WF_everything(Whole(Returns)) /\ WF_everything(Whole(CommandExits))
=============================================================================
