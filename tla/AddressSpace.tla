---------------------------- MODULE AddressSpace ----------------------------
(***************************************************************************)
(* What a user of renirol's memory managers is promised: a space of Total  *)
(* bytes from which regions are granted and to which they are returned.    *)
(* Nothing is said of how the space is divided between two calls.          *)
(*                                                                         *)
(* grants maps the first address of each region in use to its length, and  *)
(* reply is the answer of the last call.                                   *)
(***************************************************************************)
LOCAL INSTANCE Integers

CONSTANTS
  Total,      (* bytes managed                                   *)
  Align,      (* every granted address is a multiple of it       *)
  Sizes,      (* the sizes callers ask for                       *)
  Addresses   (* the addresses callers hand back, right or wrong *)

VARIABLES grants, reply

Region(a, len) == a .. a + len - 1

NoReply == [op |-> "none", arg |-> 0, value |-> 0]

Init ==
  /\ grants = [a \in {} |-> 0]
  /\ reply = NoReply

(* A granted region is aligned, at least as long as was asked, inside the  *)
(* space and clear of every other region in use.                           *)
Grant(n, a, len) ==
  /\ len >= n
  /\ a % Align = 0
  /\ Region(a, len) \subseteq 0 .. Total - 1
  /\ \A b \in DOMAIN grants : Region(a, len) \cap Region(b, grants[b]) = {}
  /\ grants' = [b \in DOMAIN grants \cup {a} |-> IF b = a THEN len ELSE grants[b]]
  /\ reply' = [op |-> "allocate", arg |-> n, value |-> a]

Refuse(n) ==
  /\ reply' = [op |-> "allocate", arg |-> n, value |-> -1]
  /\ UNCHANGED grants

(* Returning a region answers 1 exactly when it was in use.                *)
Return(a) ==
  /\ a \in DOMAIN grants
  /\ grants' = [b \in DOMAIN grants \ {a} |-> grants[b]]
  /\ reply' = [op |-> "release", arg |-> a, value |-> 1]

Reject(a) ==
  /\ a \notin DOMAIN grants
  /\ reply' = [op |-> "release", arg |-> a, value |-> 0]
  /\ UNCHANGED grants

Next ==
  \/ \E n \in Sizes : \E a \in 0 .. Total - 1 : \E len \in n .. Total : Grant(n, a, len)
  \/ \E n \in Sizes : Refuse(n)
  \/ \E a \in Addresses : Return(a)
  \/ \E a \in Addresses : Reject(a)

Spec == Init /\ [][Next]_<<grants, reply>>

-----------------------------------------------------------------------------

(* No byte is in two regions in use, and none of them leaves the space.    *)
GrantsDisjoint ==
  /\ \A a \in DOMAIN grants : Region(a, grants[a]) \subseteq 0 .. Total - 1
  /\ \A a, b \in DOMAIN grants :
        a # b => Region(a, grants[a]) \cap Region(b, grants[b]) = {}
=============================================================================
