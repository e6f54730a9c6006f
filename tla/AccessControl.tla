---------------------------- MODULE AccessControl ----------------------------
(***************************************************************************)
(* What the confidential ACL promises, without ciphertexts and requests: a *)
(* resource grants rights; a check asks once for some of them and its      *)
(* verdict is final, whatever is granted or revoked later; the one who     *)
(* checked is told the verdict, or something that is unknown; the          *)
(* administrator is shown rights that were granted at some time, or        *)
(* something unknown.                                                      *)
(***************************************************************************)
EXTENDS Naturals

CONSTANTS Right, Checker, Unchecked, Unknown

VARIABLES
  granted,   \* the rights granted now
  ever,      \* the sets of rights that were granted at some time
  verdict,   \* verdict[c]: Unchecked, or the rights the check of c found
  told,      \* told[c]: Unknown, or the rights c has been told of
  shown      \* Unknown, or the rights the administrator was shown last

accessVars == <<granted, ever, verdict, told, shown>>

AccessInit ==
  /\ granted = {} /\ ever = {{}} /\ shown = {}
  /\ verdict = [c \in Checker |-> Unchecked]
  /\ told = [c \in Checker |-> {}]

Becomes(rights) ==
  /\ granted' = rights
  /\ ever' = ever \cup {rights}
  /\ UNCHANGED <<verdict, told, shown>>

Grant(rights) == Becomes(granted \cup rights)
Revoke(rights) == Becomes(granted \ rights)

Check(c, rights) ==
  /\ verdict[c] = Unchecked
  /\ verdict' = [verdict EXCEPT ![c] = granted \cap rights]
  /\ UNCHANGED <<granted, ever, told, shown>>

Tell(c) ==
  /\ verdict[c] # Unchecked
  /\ \E says \in {verdict[c], Unknown} : told' = [told EXCEPT ![c] = says]
  /\ UNCHANGED <<granted, ever, verdict, shown>>

Show ==
  /\ shown' \in ever \cup {Unknown}
  /\ UNCHANGED <<granted, ever, verdict, told>>

AccessNext ==
  \/ \E rights \in SUBSET Right : Grant(rights) \/ Revoke(rights)
  \/ \E c \in Checker, rights \in SUBSET Right : Check(c, rights)
  \/ \E c \in Checker : Tell(c)
  \/ Show

AccessSpec == AccessInit /\ [][AccessNext]_accessVars
=============================================================================
