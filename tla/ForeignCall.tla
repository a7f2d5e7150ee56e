---------------------------- MODULE ForeignCall ----------------------------
(***************************************************************************)
(* What a call of a libdogecoin function from Python promises: it is       *)
(* refused without C having run, or C runs once, on exactly the values     *)
(* that the arguments stand for under the declared type of the function,   *)
(* and then the call is answered.                                          *)
(***************************************************************************)
CONSTANTS
  Threads,    (* the threads that call                                   *)
  Requests,   (* the calls they make: a function and its arguments       *)
  Meaning(_), (* the values C is to see for a request, or Unacceptable   *)
  MayExhaust(_),  (* whether passing it may need more memory than there is *)
  Answers(_), (* what a request may be answered with once C has run      *)
  Unacceptable,
  Nothing     (* no request, no values, no answer yet                    *)

VARIABLES
  status,     (* of each thread: idle, asked, ran                        *)
  request,    (* what it asked for                                       *)
  given,      (* the values C ran on                                     *)
  reply       (* the outcome of its last call                            *)

callVars == <<status, request, given, reply>>

CallInit ==
  /\ status = [t \in Threads |-> "idle"]
  /\ request = [t \in Threads |-> Nothing]
  /\ given = [t \in Threads |-> Nothing]
  /\ reply = [t \in Threads |-> Nothing]

Ask(t, r) ==
  /\ status[t] = "idle"
  /\ status' = [status EXCEPT ![t] = "asked"]
  /\ request' = [request EXCEPT ![t] = r]
  /\ reply' = [reply EXCEPT ![t] = Nothing]
  /\ UNCHANGED given

Finished(t, answer) ==
  /\ status' = [status EXCEPT ![t] = "idle"]
  /\ request' = [request EXCEPT ![t] = Nothing]
  /\ given' = [given EXCEPT ![t] = Nothing]
  /\ reply' = [reply EXCEPT ![t] = answer]

Refuse(t) ==
  /\ status[t] = "asked"
  /\ \/ Meaning(request[t]) = Unacceptable
     \/ MayExhaust(request[t])
  /\ Finished(t, "error")

Run(t) ==
  /\ status[t] = "asked"
  /\ Meaning(request[t]) # Unacceptable
  /\ status' = [status EXCEPT ![t] = "ran"]
  /\ given' = [given EXCEPT ![t] = Meaning(request[t])]
  /\ UNCHANGED <<request, reply>>

Answer(t) ==
  /\ status[t] = "ran"
  /\ \E answer \in Answers(request[t]) : Finished(t, answer)

CallNext ==
  \E t \in Threads :
    \/ Refuse(t) \/ Run(t) \/ Answer(t)
    \/ \E r \in Requests : Ask(t, r)

CallSpec == CallInit /\ [][CallNext]_callVars
=============================================================================
