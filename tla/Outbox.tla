------------------------------- MODULE Outbox -------------------------------
(***************************************************************************)
(* What an upload promises: a form is accepted at one moment with all of   *)
(* its files or not at all, and every file that was accepted is delivered  *)
(* or lost, once and for good.                                             *)
(***************************************************************************)
CONSTANTS
  Requests,   \* each asks to have the files of a form delivered
  Files

VARIABLES
  order,      \* order[r]: the files of r's form
  accepted,   \* the requests whose form was accepted
  waiting,    \* the files that are neither delivered nor lost yet
  delivered,
  lost

boxVars == <<order, accepted, waiting, delivered, lost>>

Known == waiting \cup delivered \cup lost

BoxInit ==
  /\ order \in [Requests -> SUBSET Files]
  /\ accepted = {} /\ waiting = {} /\ delivered = {} /\ lost = {}

(* No file of an accepted form was heard of before. *)
Accept(r) ==
  /\ r \notin accepted /\ order[r] # {} /\ order[r] \cap Known = {}
  /\ accepted' = accepted \cup {r}
  /\ waiting' = waiting \cup order[r]
  /\ UNCHANGED <<order, delivered, lost>>

Deliver(file) ==
  /\ file \in waiting
  /\ waiting' = waiting \ {file}
  /\ delivered' = delivered \cup {file}
  /\ UNCHANGED <<order, accepted, lost>>

(* The sender stops: what it has not delivered by then is lost. *)
Stop ==
  /\ \E done \in SUBSET waiting : /\ delivered' = delivered \cup done
                                  /\ lost' = lost \cup (waiting \ done)
  /\ waiting' = {}
  /\ UNCHANGED <<order, accepted>>

BoxNext == Stop \/ (\E r \in Requests : Accept(r)) \/ (\E file \in Files : Deliver(file))

BoxSpec == BoxInit /\ [][BoxNext]_boxVars
=============================================================================
