----------------------------- MODULE MCAccounts -----------------------------
(* Instances of Accounts for TLC. *)
EXTENDS Accounts, TLC

CONSTANTS root, root2, ann, bob, carl, eve, t1, t2, r1, r2

SixUsers == {root, root2, ann, bob, carl, eve}
TwoTenants == {t1, t2}
TwoRequests == {r1, r2}
OneRequest == {r1}

\* "super_admin" has everything, "admin" what concerns accounts, a custom role
\* has no users, and "viewer" is missing: the name is free.
FourRoles == {"super_admin", "admin", "custom", "viewer"}
ThreeSystemRoles == {"super_admin", "admin", "viewer"}
Matrix == [x \in ThreeSystemRoles |->
             CASE x = "super_admin" -> {<<"users", "*">>, <<"roles", "*">>, <<"vms", "*">>}
               [] x = "admin" -> {<<"users", "*">>, <<"roles", "read">>}
               [] x = "viewer" -> {<<"users", "read">>, <<"vms", "read">>}]
ThreeResources == {"users", "roles", "vms"}
TwoBodies == {{<<"vms", "read">>}, {<<"users", "delete">>, <<"vms", "*">>}}

Mail(a) == <<a, "lower">>
Account(t, s, rs, e) ==
    [tenant |-> t, active |-> TRUE, super |-> s, roles |-> rs, email |-> Mail(e)]

\* Two superusers, an administrator and a colleague in one tenant, carl in the other; eve is free.
FiveAccounts == [u \in SixUsers \ {eve} |->
    CASE u = root -> Account(t2, TRUE, {"super_admin"}, "a")
      [] u = root2 -> Account(t1, TRUE, {"super_admin", "admin"}, "b")
      [] u = ann -> Account(t1, FALSE, {"admin"}, "c")
      [] u = carl -> Account(t2, FALSE, {}, "f")
      [] u = bob -> Account(t1, FALSE, {}, "d")]
FirstRoles == [x \in FourRoles \ {"viewer"} |->
    [perms |-> CASE x = "custom" -> {<<"vms", "read">>}
                [] x = "admin" -> {<<"users", "*">>}
                [] OTHER -> Matrix[x],
     active |-> TRUE, system |-> x \in ThreeSystemRoles]]
FourAddresses == {"a", "b", "c", "d"}
SixAddresses == FourAddresses \cup {"e", "f"}
OneSpelling == {"lower"}
TwoSpellings == {"lower", "mixed"}

SomeNewUsers ==
    {[email |-> Mail("e"), tenant |-> t, roles |-> rs] : t \in TwoTenants,
                                                      rs \in {{"admin"}, {"custom"}}}
      \cup {[email |-> Mail("d"), tenant |-> t1, roles |-> {}]}

Patch(e, a, rs, p) == [email |-> e, active |-> a, roles |-> rs, password |-> p]
SomePatches ==
    {Patch(None, None, rs, FALSE) : rs \in {{}, {"admin"}, {"custom"}}}
      \cup {Patch(Mail("e"), None, None, FALSE), Patch(None, FALSE, None, FALSE),
            Patch(None, TRUE, None, FALSE), Patch(None, None, None, TRUE)}
MailPatches == {Patch(<<a, w>>, None, None, FALSE) : a \in {"c", "e"}, w \in TwoSpellings}

Calls(create, update, delete, grant, role, init) ==
    [k \in Kinds |-> CASE k = "create" -> create [] k = "update" -> update
                       [] k = "delete" -> delete [] k = "grant" -> grant
                       [] k = "role" -> role [] k = "init" -> init]

\* Requests that touch the same rows are made together.
AllBudgets == {Calls(2, 1, 0, 0, 0, 0), Calls(0, 1, 0, 2, 0, 0), Calls(0, 0, 3, 0, 0, 0),
               Calls(0, 1, 1, 0, 0, 0), Calls(0, 0, 0, 1, 2, 0), Calls(1, 1, 0, 0, 1, 0),
               Calls(0, 0, 0, 1, 1, 1), Calls(0, 0, 0, 0, 1, 2)}
MailBudgets == {Calls(1, 2, 0, 0, 0, 0)}

Symmetry == Permutations(TwoRequests)
=============================================================================
