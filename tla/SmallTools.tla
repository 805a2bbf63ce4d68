----------------------------- MODULE SmallTools -----------------------------
(***************************************************************************)
(* A DOS machine with the TEEN stack: the user runs one of the small       *)
(* programs, or of the parts of the bigger ones that run before and after  *)
(* the transfer.  What they share is the stack's UDP handle.               *)
(***************************************************************************)
EXTENDS SntpGet, UdpEcho, Ping, Md5Sum, FmDriver, TftpArgs, EsenetOpen

CONSTANTS
  Md5Jobs         \* command lines of md5sum, with the files there are

ASSUME Md5JobsAssumption == \A j \in Md5Jobs : IsJob(j)

VARIABLE prog     \* the program that runs

vars == <<sntpVars, echoVars, pingVars, md5Vars, fmVars, argsVars, openVars, prog>>

\* The state of the programs that do not run, which stays as it is.
SntpAtRest ==
  UNCHANGED <<spc, stry, now, skew, asked, answers, sum, chosen, chosenAt, torn>>
EchoAtRest ==
  UNCHANGED <<epc, connected, kbd, keys, question, wire, shown, aborts, foreign,
              disturbed>>
NetAtRest == UNCHANGED <<sntpVars, echoVars, pingVars>>
OthersAtRest == UNCHANGED <<pingVars, md5Vars, fmVars, argsVars, openVars, prog>>

\* All the inputs of the program that runs, and one of the others.
Inputs(name, inputs) == IF prog = name THEN inputs ELSE {CHOOSE x \in inputs : TRUE}

Programs == {"sntpget", "udpecho", "ping", "md5sum", "fmtest", "tftp", "esenet"}

Init ==
  /\ prog \in Programs
  /\ SntpInit /\ EchoInit /\ PingInit
  /\ Md5Init(Inputs("md5sum", Md5Jobs)) /\ FmInit
  /\ ArgsInit(Inputs("tftp", TftpLines)) /\ OpenInit(Inputs("esenet", OpenLines))
  /\ prog # "sntpget" => skew = 0
  /\ prog # "udpecho" => connected
  /\ prog # "fmtest" => caller = "fmtest" /\ layout = "packed"

RunSntp == prog = "sntpget" /\ SntpNext /\ EchoAtRest /\ OthersAtRest
RunEcho == prog = "udpecho" /\ EchoNext /\ SntpAtRest /\ OthersAtRest
RunPing == prog = "ping" /\ PingNext /\ UNCHANGED <<sntpVars, echoVars>>
           /\ UNCHANGED <<md5Vars, fmVars, argsVars, openVars, prog>>
RunMd5 == prog = "md5sum" /\ Md5Next /\ NetAtRest
          /\ UNCHANGED <<fmVars, argsVars, openVars, prog>>
RunFm == prog = "fmtest" /\ FmNext /\ NetAtRest
         /\ UNCHANGED <<md5Vars, argsVars, openVars, prog>>
RunTftp == prog = "tftp" /\ ArgsNext /\ NetAtRest
           /\ UNCHANGED <<md5Vars, fmVars, openVars, prog>>
RunEsenet == prog = "esenet" /\ OpenNext /\ NetAtRest
             /\ UNCHANGED <<md5Vars, fmVars, argsVars, prog>>

Next == RunSntp \/ RunEcho \/ RunPing \/ RunMd5 \/ RunFm \/ RunTftp \/ RunEsenet

Spec == Init /\ [][Next]_vars

\* sntpget polls and never waits for the network; the look-up ends.
SntpStep == prog = "sntpget" /\ SntpClient /\ EchoAtRest /\ OthersAtRest

FairSpec == Spec /\ WF_vars(SntpStep)

TypeOK ==
  /\ prog = "sntpget" => SntpTypeOK
  /\ prog = "udpecho" => EchoTypeOK
  /\ prog = "ping" => PingTypeOK
  /\ prog = "md5sum" => Md5TypeOK
  /\ prog = "fmtest" => FmTypeOK
  /\ prog = "tftp" => ArgsTypeOK
  /\ prog = "esenet" => OpenTypeOK

\* Requests that go unanswered do not keep sntpget from ending: each look for an
\* answer is counted, whatever arrives.
SntpEnds == (prog = "sntpget") ~> (spc = "end")
=============================================================================
