------------------------------ MODULE MCKarma ------------------------------
(***************************************************************************)
(* Two instances in one run.  A completed order rewards its seller and its *)
(* buyer, while an admin fines the seller, takes permissions or bans, and  *)
(* the seller edits or deletes the account.  Or a dispute that was         *)
(* resolved several times fines the seller, message by message.  `focus`   *)
(* names the one a behaviour is about; the messages of the other stay in   *)
(* Kafka.                                                                  *)
(***************************************************************************)
EXTENDS Karma, TLC

CONSTANTS r1, r2, seller, buyer, asSeller, asBuyer, atFault, done, again1, again2, again3

VARIABLE focus

Resolutions == {again1, again2, again3}

TheUsers == [c \in Credits |-> IF c = asBuyer THEN buyer ELSE seller]
Amounts  == [c \in Credits |-> CASE c = asBuyer -> 5 [] c = asSeller -> 10 [] OTHER -> -15]
Carried  == [m \in Messages |-> IF m = done THEN {asSeller, asBuyer} ELSE {atFault}]

\* toggleBanUser does what banUser and unbanUser do.
All == (RequestOps \ {"banUser", "unbanUser"}) \X {seller}

Lists == {{"CAN_POST", "CAN_BAN"}, {"CAN_FLY"}}

Lowest == -10
Fines == {-20}

Alike == Permutations(Replicas)

KarmaInit == Init /\ focus \in {"order", "dispute"}

KarmaNext ==
  /\ Next
  /\ UNCHANGED focus
  /\ IF focus = "order" THEN Resolutions \subseteq queue'
                        ELSE done \in queue' /\ UNCHANGED task

KarmaSpec == KarmaInit /\ [][KarmaNext]_<<focus, vars>>
=============================================================================
