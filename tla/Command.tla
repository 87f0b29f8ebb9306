------------------------------- MODULE Command -------------------------------
(***************************************************************************)
(* One command from its start to its exit status: the body of runCommand,  *)
(* runEmbeddings or runMcp, their finally, installShutdown's stop(), the   *)
(* signals and, for the MCP server, the end of stdin.  close() - what it   *)
(* waits for, in which order, is module Runtime's - may fail here.         *)
(***************************************************************************)
EXTENDS Naturals

VARIABLES
    kind,       \* "command" | "worker" (embeddings worker) | "mcp"
    body,       \* "running", or how the try block ended
    stop,       \* the promise stop() memoizes
    asked,      \* who awaits it: "signal" | "eof" | "finally"
    listening,  \* the signal listeners are installed
    done,       \* runMcp's done is resolved
    stdin,      \* "open" | "ended"
    over,       \* runProgram has returned or thrown
    exitCode,   \* process.exitCode
    command     \* "running", or how the process that runs it ended

commandVars == <<kind, body, stop, asked, listening, done, stdin, over, exitCode, command>>

CommandTypeOK ==
    /\ kind \in {"command", "worker", "mcp"}
    /\ body \in {"running", "ok", "partial", "badInput", "failed"}
    /\ stop \in {"unasked", "pending", "resolved", "rejected"}
    /\ asked \subseteq {"signal", "eof", "finally"}
    /\ {listening, done, over} \subseteq BOOLEAN
    /\ stdin \in {"open", "ended"} /\ exitCode \in 0 .. 2
    /\ command \in {"running", "exited", "forced", "killed"}
    /\ (stop = "unasked") = (asked = {})

CommandInit ==
    /\ kind \in {"command", "worker", "mcp"} /\ body = "running"
    /\ stop = "unasked" /\ asked = {} /\ listening = TRUE /\ done = FALSE
    /\ stdin = "open" /\ over = FALSE /\ exitCode = 0 /\ command = "running"

StillUp == command = "running"

(* stop(): the first call aborts the body's signal, arms the grace timer   *)
(* and calls close(); every call returns the same promise.                 *)
AskedBy(who) ==
    /\ asked' = asked \cup {who}
    /\ stop' = IF stop = "unasked" THEN "pending" ELSE stop

-----------------------------------------------------------------------------
(* The body ends: a command's work when it likes, a worker pool when it is *)
(* aborted, the MCP server when done resolves; these two refuse their      *)
(* arguments, or fail, when they start.  A result with failures sets the   *)
(* exit status.                                                            *)
MayEnd(result) ==
    \/ kind = "command"
    \/ result \in {"badInput", "failed"} /\ asked = {}
    \/ result = "ok" /\ kind = "worker" /\ stop # "unasked"
    \/ result = "ok" /\ kind = "mcp" /\ done

BodyEnds(result) ==
    /\ StillUp /\ body = "running" /\ MayEnd(result)
    /\ body' = result /\ AskedBy("finally")
    /\ exitCode' = IF result = "partial" THEN 1 ELSE exitCode
    /\ UNCHANGED <<kind, listening, done, stdin, over, command>>

(* What only waits for the abort or for done.                              *)
Released == kind # "command" /\ BodyEnds("ok")

(* SIGINT or SIGTERM: stop(), or the default action when nobody listens.   *)
Signal ==
    /\ StillUp
    /\ IF listening THEN AskedBy("signal") /\ UNCHANGED command
                    ELSE command' = "killed" /\ UNCHANGED <<asked, stop>>
    /\ UNCHANGED <<kind, body, listening, done, stdin, over, exitCode>>

Settles(outcome) ==
    /\ StillUp /\ stop = "pending"
    /\ kind = "command" => body # "running"     \* close() waits for it
    /\ stop' = outcome /\ listening' = FALSE    \* and the timer is cleared
    /\ UNCHANGED <<kind, body, stdin, over, command>>

CloseResolves ==
    /\ Settles("resolved")
    /\ done' = (kind = "mcp")
    /\ UNCHANGED <<asked, exitCode>>

(* sql.end() or mcp.close() throws (the tokenizer pool's shutdown cannot). *)
(* The catch of a signal and of eof() set the exit status, only eof()'s    *)
(* lets runMcp go on; a failing mcp.close() may have called it (onclose).  *)
CloseRejects ==
    /\ Settles("rejected")
    /\ \/ UNCHANGED asked
       \/ kind = "mcp" /\ asked' = asked \cup {"eof"}
    /\ done' = (done \/ "eof" \in asked')
    /\ exitCode' = IF asked' \cap {"signal", "eof"} # {} THEN 1 ELSE exitCode

(* Mutant: the catch of eof() only reports. *)
EofOnlyReports ==
    /\ StillUp /\ kind = "mcp" /\ stdin = "open"
    /\ stdin' = "ended"
    /\ IF stop = "resolved" THEN UNCHANGED <<asked, stop>> ELSE AskedBy("eof")
    /\ exitCode' = IF stop = "rejected" THEN 1 ELSE exitCode
    /\ UNCHANGED <<kind, body, listening, done, over, command>>

(* The host closes stdin.  Once everything is closed nobody listens; after *)
(* a failed close the catch runs at once.                                  *)
Eof ==
    /\ StillUp /\ kind = "mcp" /\ stdin = "open"
    /\ stdin' = "ended"
    /\ IF stop = "resolved" THEN UNCHANGED <<asked, stop>> ELSE AskedBy("eof")
    /\ done' = (done \/ stop = "rejected")
    /\ exitCode' = IF stop = "rejected" THEN 1 ELSE exitCode
    /\ UNCHANGED <<kind, body, listening, over, command>>

(* The grace timer: process.exit(1).                                       *)
GraceEnds ==
    /\ StillUp /\ stop = "pending"
    /\ command' = "forced" /\ exitCode' = 1
    /\ UNCHANGED <<kind, body, stop, asked, listening, done, stdin, over>>

Thrown == IF body = "badInput" THEN 2 ELSE IF body = "failed" THEN 1 ELSE exitCode

(* Mutant: the finally ignores that stop() failed. *)
ReturnsRegardless ==
    /\ StillUp /\ body # "running" /\ ~over /\ stop \in {"resolved", "rejected"}
    /\ over' = TRUE
    /\ exitCode' = Thrown
    /\ UNCHANGED <<kind, body, stop, asked, listening, done, stdin, command>>

(* The finally: when stop() rejects its error takes the place of the       *)
(* body's; bin.ts turns what is thrown into the exit status.               *)
Returns ==
    /\ StillUp /\ body # "running" /\ ~over /\ stop \in {"resolved", "rejected"}
    /\ over' = TRUE
    /\ exitCode' = IF stop = "rejected" THEN 1 ELSE Thrown
    /\ UNCHANGED <<kind, body, stop, asked, listening, done, stdin, command>>

(* Nothing keeps the process, or the pool reaps its idle connections.      *)
CommandExits ==
    /\ StillUp /\ over /\ command' = "exited"
    /\ UNCHANGED <<kind, body, stop, asked, listening, done, stdin, over, exitCode>>

CommandNext ==
    \/ \E result \in {"ok", "partial", "badInput", "failed"} : BodyEnds(result)
    \/ Signal \/ Eof \/ CloseResolves \/ CloseRejects \/ GraceEnds
    \/ Returns \/ CommandExits

CommandSpec == CommandInit /\ [][CommandNext]_commandVars

(* A timer fires, and what is due to run runs; nothing says that a body or *)
(* a close() ends, that stdin ends or that a signal comes.                 *)
FairCommandSpec ==
    /\ CommandSpec /\ WF_commandVars(GraceEnds) /\ WF_commandVars(Released)
    /\ WF_commandVars(Returns) /\ WF_commandVars(CommandExits)

-----------------------------------------------------------------------------
(* The exit status is 0 exactly if the command's body ended without an     *)
(* error or a partial result and what it had opened was closed, and 2 only *)
(* for a refused request, whatever signals, EOF and failures of close()    *)
(* come in which order.  A drain or a retry cut short by a signal ends     *)
(* without an error (docs/guides/cli.md:202).                              *)
ExitTellsTruth ==
    command = "exited" =>
        /\ exitCode = 0 <=> body = "ok" /\ stop = "resolved"
        /\ exitCode = 2 => body = "badInput"

(* Whoever asks a command to stop, it ends within the grace, also when     *)
(* close() fails or its body never ends.  The MCP server needs one thing   *)
(* more: after a failed close() it ends when its stdin does ("On EOF, MCP  *)
(* close, SIGINT/Ctrl-C, or SIGTERM ...", docs/mcp/index.md:95).           *)
CommandEnds ==
    \/ stop = "resolved"
    \/ stop # "unasked" /\ kind # "mcp"
    \/ stdin = "ended"
    ~> command # "running"
=============================================================================
