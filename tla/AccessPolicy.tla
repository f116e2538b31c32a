---------------------------- MODULE AccessPolicy ----------------------------
(***************************************************************************)
(* RoleBasedAccessPolicy: who holds which role on which object.  A policy  *)
(* is a function from the keys <<subject, role, object>> whose entry is    *)
(* set to "Allow" or "Deny"; a key outside its domain is unset.  Addresses *)
(* are pairs of a kind and a number; the zero address stands for everyone  *)
(* as a subject and for every object as an object.                         *)
(***************************************************************************)
EXTENDS Naturals, Sequences, SequencesExt

Zero == <<"0x0", 0>>
EVERYONE == Zero
GLOBAL == Zero

Access(policy, subject, role, object) ==
    IF <<subject, role, object>> \in DOMAIN policy
    THEN policy[<<subject, role, object>>] ELSE "Unset"

\* the entries that may decide: local, global, everyone local, everyone global
Cascade(policy, subject, role, object) ==
    <<Access(policy, subject, role, object), Access(policy, subject, role, GLOBAL),
      Access(policy, EVERYONE, role, object), Access(policy, EVERYONE, role, GLOBAL)>>

\* the first that is set does
Allowed(policy, subject, role, object) ==
    LET entries == Cascade(policy, subject, role, object)
    IN \E i \in 1 .. 4 : /\ entries[i] = "Allow"
                         /\ \A j \in 1 .. i - 1 : entries[j] = "Unset"

\* its creator controls the policy itself and every contract under it
NewPolicy(creator, this) ==
    [key \in {<<creator, "accessController", this>>, <<creator, "accessController", GLOBAL>>} |->
        "Allow"]

SetUserRole(policy, rule) ==
    LET key == <<rule.subject, rule.role, rule.object>>
    IN IF rule.state = "Unset"
       THEN [k \in DOMAIN policy \ {key} |-> policy[k]]
       ELSE [k \in DOMAIN policy \cup {key} |-> IF k = key THEN rule.state ELSE policy[k]]

SetUserRoles(policy, rules) == FoldLeft(SetUserRole, policy, rules)

\* only a controller of the policy sets roles, and never his own local right on it
MaySetUserRoles(policy, sender, this, rules) ==
    /\ Allowed(policy, sender, "accessController", this)
    /\ ~\E i \in DOMAIN rules :
         rules[i].role = "accessController" /\ rules[i].subject = sender /\ rules[i].object = this

=============================================================================
