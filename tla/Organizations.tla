--------------------------- MODULE Organizations ----------------------------
(***************************************************************************)
(* The members of one organization and their roles: the role check of the  *)
(* guard before every handler (apps/api/src/auth/guards.ts) and the        *)
(* requests that change roles (apps/api/src/orgs/orgs.controller.ts), each *)
(* a sequence of queries that interleave with those of the others.         *)
(***************************************************************************)
EXTENDS Naturals, FiniteSets

CONSTANTS
    Users,
    Founder,   \* the user who creates the organization
    SuperAdmins,
    OrgCalls   \* requests in flight at one time

ASSUME OrganizationsAssumption == Founder \in Users /\ SuperAdmins \subseteq Users

VARIABLES
    role,     \* role in the Membership row of each user
    orgGone,  \* Organization.deletedAt is set
    ocall     \* the requests: who asks what about whom, and what comes next

orgVars == <<role, orgGone, ocall>>

Roles == {"viewer", "editor", "admin", "owner"}
RoleRank == [none |-> 0, viewer |-> 1, editor |-> 2, admin |-> 3, owner |-> 4]

\* What is asked: the role an invitation gives, or the removal of a member.
Invitations == {"admin", "editor", "viewer"}
Removal == "none"

NoOrgCall == [at |-> "idle", by |-> Founder, user |-> Founder, new |-> Removal]

OrganizationsInit ==
    /\ role = [u \in Users |-> "none"]
    /\ orgGone = FALSE
    /\ ocall = [c \in OrgCalls |-> NoOrgCall]

CreateOrganization ==
    /\ \A u \in Users : role[u] = "none"
    /\ role' = [role EXCEPT ![Founder] = "owner"]
    /\ UNCHANGED <<orgGone, ocall>>

enforceOrgRole(u, minimum) ==
    u \in SuperAdmins \/ RoleRank[role[u]] >= RoleRank[minimum]

OrgGoto(c, label) == ocall' = [ocall EXCEPT ![c].at = label]
OrgEnd(c) == ocall' = [ocall EXCEPT ![c] = NoOrgCall]

\* inviteMember and removeMember: an admin may ask.
BeginMember(c) ==
    /\ ocall[c] = NoOrgCall
    /\ \E v \in Users : role[v] # "none"
    /\ \E u \in {v \in Users : enforceOrgRole(v, "admin")},
          t \in Users, new \in Invitations \cup {Removal} :
           ocall' = [ocall EXCEPT ![c] = [at |-> "find", by |-> u, user |-> t, new |-> new]]
    /\ UNCHANGED <<role, orgGone>>

\* The membership of the user, if there is one: that of an owner is guarded.
FindMember(c) ==
    /\ ocall[c].at = "find"
    /\ LET found == role[ocall[c].user]
       IN  IF found = "none" /\ ocall[c].new = Removal THEN OrgEnd(c)
           ELSE OrgGoto(c, IF found = "owner" THEN "assertCaller" ELSE "write")
    /\ UNCHANGED <<role, orgGone>>

\* assertCanActOnOwner: only an owner may ...
AssertCaller(c) ==
    /\ ocall[c].at = "assertCaller"
    /\ IF role[ocall[c].by] = "owner" THEN OrgGoto(c, "countOwners") ELSE OrgEnd(c)
    /\ UNCHANGED <<role, orgGone>>

owners == {u \in Users : role[u] = "owner"}

\* Mutant: one owner is enough.
CountOwnersOne(c) ==
    /\ ocall[c].at = "countOwners"
    /\ IF Cardinality(owners) < 1 THEN OrgEnd(c) ELSE OrgGoto(c, "write")
    /\ UNCHANGED <<role, orgGone>>

\* ... and not to the last one.
CountOwners(c) ==
    /\ ocall[c].at = "countOwners"
    /\ IF Cardinality(owners) <= 1 THEN OrgEnd(c) ELSE OrgGoto(c, "write")
    /\ UNCHANGED <<role, orgGone>>

WriteRole(c) ==
    /\ ocall[c].at = "write"
    /\ role' = [role EXCEPT ![ocall[c].user] = ocall[c].new]
    /\ OrgEnd(c)
    /\ UNCHANGED orgGone

\* The memberships stay.
SoftDeleteOrg(u) ==
    /\ \E v \in Users : role[v] # "none"
    /\ enforceOrgRole(u, "owner")
    /\ orgGone' = TRUE
    /\ UNCHANGED <<role, ocall>>

MemberStep(c) ==
    FindMember(c) \/ AssertCaller(c) \/ CountOwners(c) \/ WriteRole(c)

OrganizationsNext ==
    \/ CreateOrganization
    \/ \E c \in OrgCalls : BeginMember(c) \/ MemberStep(c)
    \/ \E u \in Users : SoftDeleteOrg(u)

OrganizationsSpec == OrganizationsInit /\ [][OrganizationsNext]_orgVars

-----------------------------------------------------------------------------
(* Properties.                                                             *)

\* An organization always keeps an owner, whoever invites, demotes or removes
\* whom at the same time: each of these requests looks at the owners before it
\* writes, and not while it does.
OwnerStays ==
    (\E u \in Users : role[u] # "none") => \E u \in Users : role[u] = "owner"
=============================================================================
