------------------------------- MODULE FileAccess -------------------------------
(***************************************************************************)
(* Who may do what to one file: the owner and the shares of its ACL        *)
(* (fileacl/store.go, storage/fileacl_postgres.go), the checks of          *)
(* handlers/file_authz.go, and the handlers that change the ACL - Share of *)
(* files.go and of v1.go, TransferOwner of sharelinks.go, Delete of        *)
(* files.go.  With authentication on, so that nothing is open to all.      *)
(*                                                                         *)
(* A check is two lookups, one for access and one for the role, and a      *)
(* lookup two statements, one for the owner and one for the share: other   *)
(* requests run between any of them.  Administrators, who pass every       *)
(* check, are left out.                                                    *)
(***************************************************************************)
EXTENDS Naturals

CONSTANTS Account,
          FirstOwner,  \* the account that created the file
          FirstViewer, \* the account with which it was shared
          Request,     \* bound: requests under way at once
          MaxCalls     \* bound: requests

VARIABLES owner,     \* file_owners: an account, or None
          share,     \* share[a]: the role file_shares has for a, or None
          exists,    \* the file is in the storage
          request,   \* request[r]: see Idle
          calls,
          granted,   \* history: the accounts that were given access, and from
                     \* whom nobody took it
          unfounded, \* history: a request was let through although its account
                     \* never had the role meanwhile, and nothing was taken
          muddled    \* history: a transfer overlapped another, or was cut short

vars ==
  <<owner, share, exists, request, calls, granted, unfounded, muddled>>

None == "none"
Grantable == {"viewer", "commenter", "editor"}
Level == [none |-> 0, viewer |-> 1, commenter |-> 2, editor |-> 3, owner |-> 4]

(* What a request wants, and the role that takes.                          *)
Needs ==
  [read |-> "viewer", comment |-> "commenter", edit |-> "editor",
   share |-> "owner", transfer |-> "owner", delete |-> "owner"]

(* owns: what the statement for the owner said.  prev: the owner that a    *)
(* transfer found.  had: the highest level its account had during the      *)
(* check.  taken: it lost its access during the check, or the file its     *)
(* record.                                                                 *)
Idle ==
  [at |-> "idle", does |-> "read", by |-> FirstOwner, to |-> FirstOwner,
   role |-> None, owns |-> FALSE, prev |-> None, had |-> 0, taken |-> FALSE]
Checking == {"access1", "access2", "role1", "role2"}
Transfer == {"set", "unshare", "demote"}

Init ==
  /\ owner = FirstOwner /\ exists = TRUE
  /\ share = [a \in Account |-> IF a = FirstViewer THEN "viewer" ELSE None]
  /\ request = [r \in Request |-> Idle] /\ calls = 0
  /\ granted = {FirstOwner, FirstViewer} /\ unfounded = FALSE /\ muddled = FALSE

(* GetRole, were its two statements one.                                   *)
RoleOf(a, own, roles) ==
  IF own = None THEN None ELSE IF own = a THEN "owner" ELSE roles[a]

Goes(r, q) == request' = [request EXCEPT ![r] = q]
End(r) == Goes(r, Idle)

-----------------------------------------------------------------------------
(* The checks.                                                             *)

Call(r) ==
  /\ request[r] = Idle /\ calls < MaxCalls /\ calls' = calls + 1
  /\ \E does \in DOMAIN Needs, by, to \in Account,
        role \in Grantable \union {None} :
       /\ does # "share" => role = None
       /\ does \notin {"share", "transfer"} => to = by
       /\ Goes(r, [Idle EXCEPT !.at = "access1", !.does = does, !.by = by,
                               !.to = to, !.role = role,
                               !.had = Level[RoleOf(by, owner, share)]])
  /\ UNCHANGED <<owner, share, exists, granted, unfounded, muddled>>

(* canAccess: a file without an owner is not open to all.                  *)
FindOwner(r) ==
  LET q == request[r]
  IN  /\ q.at = "access1"
      /\ IF owner = None THEN End(r)
         ELSE Goes(r, [q EXCEPT !.at = "access2", !.owns = owner = q.by])
      /\ UNCHANGED <<owner, share, exists, calls, granted, unfounded,
                     muddled>>
CanAccess(r) ==
  LET q == request[r]
      allowed == q.owns \/ share[q.by] # None
  IN  /\ q.at = "access2"
      /\ IF allowed /\ q.does # "read" THEN Goes(r, [q EXCEPT !.at = "role1"])
                                       ELSE End(r)
      /\ unfounded' = (unfounded \/ (/\ allowed /\ q.does = "read"
                                     /\ q.had = 0 /\ ~q.taken))
      /\ UNCHANGED <<owner, share, exists, calls, granted, muddled>>

(* Mutated form of Suffices: every check refuses viewers only.             *)
SufficesUnlessViewer(does, role) == role # "viewer"

(* requireCommenter, requireEditor, requireOwner.  Whoever has no role any *)
(* more is let through, as for a file without an ACL.                      *)
Suffices(does, role) == role = None \/ Level[role] >= Level[Needs[does]]
Decided(r, role) ==
  LET q == request[r]
  IN  /\ IF Suffices(q.does, role) /\ Needs[q.does] = "owner"
           THEN Goes(r, [q EXCEPT !.at = "act"]) ELSE End(r)
      /\ unfounded' = (unfounded \/ (/\ Suffices(q.does, role) /\ ~q.taken
                                     /\ q.had < Level[Needs[q.does]]))
GetRole(r) ==
  LET q == request[r]
  IN  /\ \/ q.at = "role1" /\ owner = None /\ Decided(r, None)
         \/ /\ q.at = "role1" /\ owner # None /\ UNCHANGED unfounded
            /\ Goes(r, [q EXCEPT !.at = "role2", !.owns = owner = q.by])
         \/ /\ q.at = "role2"
            /\ Decided(r, IF q.owns THEN "owner" ELSE share[q.by])
      /\ UNCHANGED <<owner, share, exists, calls, granted, muddled>>

-----------------------------------------------------------------------------
(* The changes.                                                            *)

(* A check under way, as the ACL becomes own, roles.                       *)
Seen(q, own, roles) ==
  LET level == Level[RoleOf(q.by, own, roles)]
  IN  [q EXCEPT !.had = IF level > @ THEN level ELSE @,
                !.taken = @ \/ own = None \/ (level = 0 /\ q.had > 0)]

(* r stores own, roles, and goes to next.                                  *)
Store(r, own, roles, next) ==
  /\ owner' = own /\ share' = roles
  /\ request' = [s \in Request |->
       IF s = r THEN next
       ELSE IF request[s].at \in Checking THEN Seen(request[s], own, roles)
       ELSE request[s]]

(* Share, of a file that exists.  Only that of files.go refuses to touch   *)
(* the owner's own access.                                                 *)
Share(r) ==
  LET q == request[r]
  IN  /\ q.at = "act" /\ q.does = "share"
      /\ \/ exists /\ Goes(r, [q EXCEPT !.at = "share"])
         \/ (~exists \/ owner = q.to) /\ End(r)
      /\ UNCHANGED <<owner, share, exists, calls, granted, unfounded,
                     muddled>>
ShareWithRole(r) ==
  LET q == request[r]
  IN  /\ q.at = "share"
      /\ Store(r, owner, [share EXCEPT ![q.to] = q.role], Idle)
      /\ granted' = IF q.role = None THEN granted \ {q.to}
                                     ELSE granted \union {q.to}
      /\ UNCHANGED <<exists, calls, unfounded, muddled>>

(* TransferOwner: it finds the owner, and in three statements makes        *)
(* another account the owner and the previous one an editor.               *)
TransferOwner(r) ==
  LET q == request[r]
      prev == IF owner = None THEN q.by ELSE owner
  IN  /\ q.at = "act" /\ q.does = "transfer"
      /\ IF ~exists \/ q.to = prev THEN End(r) /\ UNCHANGED muddled
         ELSE /\ Goes(r, [q EXCEPT !.at = "set", !.prev = prev])
              /\ muddled' = (muddled \/ \E s \in Request :
                                          request[s].at \in Transfer)
      /\ UNCHANGED <<owner, share, exists, calls, granted, unfounded>>
SetOwner(r) ==
  LET q == request[r]
  IN  /\ q.at = "set"
      /\ Store(r, q.to, share, [q EXCEPT !.at = "unshare"])
      /\ granted' = granted \union {q.to}
      /\ UNCHANGED <<exists, calls, unfounded, muddled>>
Unshare(r) ==
  LET q == request[r]
  IN  /\ q.at = "unshare"
      /\ Store(r, owner, [share EXCEPT ![q.to] = None],
               [q EXCEPT !.at = "demote"])
      /\ UNCHANGED <<exists, calls, granted, unfounded, muddled>>

(* Mutated form of Demote: the previous owner is left without a share.     *)
DemoteNobody(r) ==
  /\ request[r].at = "demote" /\ Store(r, owner, share, Idle)
  /\ UNCHANGED <<exists, calls, granted, unfounded, muddled>>

Demote(r) ==
  LET q == request[r]
  IN  /\ q.at = "demote"
      /\ Store(r, owner, [share EXCEPT ![q.prev] = "editor"], Idle)
      /\ UNCHANGED <<exists, calls, granted, unfounded, muddled>>

(* The process dies, or a statement fails.                                 *)
CutShort(r) ==
  /\ request[r].at \in {"unshare", "demote"} /\ muddled' = TRUE /\ End(r)
  /\ UNCHANGED <<owner, share, exists, calls, granted, unfounded>>

(* Delete: the file, its owner and its shares.                             *)
Delete(r) ==
  LET q == request[r]
  IN  /\ q.at = "act" /\ q.does = "delete"
      /\ IF exists THEN Goes(r, [q EXCEPT !.at = "drop1"]) ELSE End(r)
      /\ exists' = FALSE
      /\ UNCHANGED <<owner, share, calls, granted, unfounded, muddled>>
Drop(r) ==
  LET q == request[r]
  IN  /\ \/ q.at = "drop1" /\ Store(r, None, share, [q EXCEPT !.at = "drop2"])
         \/ q.at = "drop2" /\ Store(r, owner, [a \in Account |-> None], Idle)
      /\ granted' = {}
      /\ UNCHANGED <<exists, calls, unfounded, muddled>>

Next ==
  \E r \in Request :
    \/ Call(r) \/ FindOwner(r) \/ CanAccess(r) \/ GetRole(r)
    \/ Share(r) \/ ShareWithRole(r) \/ TransferOwner(r) \/ SetOwner(r)
    \/ Unshare(r) \/ Demote(r) \/ CutShort(r) \/ Delete(r) \/ Drop(r)
Spec == Init /\ [][Next]_vars

-----------------------------------------------------------------------------
TypeOK ==
  /\ owner \in Account \union {None}
  /\ share \in [Account -> Grantable \union {None}]
  /\ exists \in BOOLEAN /\ granted \subseteq Account

(* Whoever is let through had the role at some moment while its two        *)
(* lookups ran, four statements among those of shares, transfers and       *)
(* deletions - except that an account from which all access is taken       *)
(* between the two lookups counts as one without a record, and that a      *)
(* share stored between the two statements of a deletion counts for a      *)
(* check that found the owner before.                                      *)
LetThroughWithRole == ~unfounded

(* Nobody to whom access was given loses it but by a share or a deletion   *)
(* that takes it: not by a transfer that makes a collaborator the owner    *)
(* and the owner an editor, once it is over.  This leaves out transfers    *)
(* that overlap, and one that is cut short, which locks out the previous   *)
(* owner.                                                                  *)
NobodyLockedOut ==
  exists /\ ~muddled /\ (\A r \in Request : request[r].at \notin Transfer)
    => \A a \in granted : RoleOf(a, owner, share) # None
=============================================================================
