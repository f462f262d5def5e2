----------------------------- MODULE Capability -----------------------------
(* The operator's token (admin/capability.ts, cli/commands/admin.ts): a file,  *)
(* the command line that grants and revokes it, and the servers that read it   *)
(* once, when they start, and decide by their copy (services/auth-context.ts,  *)
(* the gates of the write service, the importer and confirm_memory_trust).     *)

EXTENDS Naturals, FiniteSets

CONSTANTS
  Tokens,        \* what randomBytes may return, each at most once
  Operators,     \* runs of the command line
  Servers,       \* server processes
  None           \* no token

VARIABLES
  file,          \* admin.cap: None or the token with what the checks see
  op,            \* what each command line process is doing
  issued,        \* tokens generated
  withdrawn,     \* tokens revoked or replaced: no longer on disk
  failed,        \* tokens whose grant reported an error
  server,        \* each server: profile and loaded record
  use            \* the latest accepted authorization

vars == <<file, op, issued, withdrawn, failed, server, use>>

Profiles == {"core", "extended", "admin"}
Types == {"trust_promotion", "sensitivity_restricted", "import_trust_restore", "import_restricted"}
ProfileRequired(type) == type \in {"trust_promotion", "sensitivity_restricted"}

(* validatePermissionBoundary: a regular file of the owner, for nobody else. *)
File == [token : Tokens, sound : BOOLEAN]
Off == [up |-> FALSE, profile |-> "core", record |-> None, stale |-> {}]
Idle == [step |-> "idle", token |-> None]

TypeOK ==
  /\ file \in File \cup {None}
  /\ op \in [Operators -> [step : {"idle", "written", "renamed", "revoking"},
                           token : Tokens \cup {None}]]
  /\ issued \subseteq Tokens /\ withdrawn \subseteq Tokens /\ failed \subseteq Tokens
  /\ server \in [Servers -> [up : BOOLEAN, profile : Profiles,
                             record : Tokens \cup {None}, stale : SUBSET Tokens]]
  /\ use \in [token : Tokens, type : Types, profile : Profiles, stale : BOOLEAN] \cup {None}

Init ==
  /\ file = None
  /\ op = [o \in Operators |-> Idle]
  /\ issued = {} /\ withdrawn = {} /\ failed = {}
  /\ server = [s \in Servers |-> Off]
  /\ use = None

OnDisk == IF file = None THEN {} ELSE {file.token}

(* grant: the temporary file, *)
GrantWrite(o) ==
  /\ op[o] = Idle
  /\ \E t \in Tokens \ issued :
       /\ issued' = issued \cup {t}
       /\ op' = [op EXCEPT ![o] = [step |-> "written", token |-> t]]
  /\ UNCHANGED <<file, withdrawn, failed, server, use>>

(* its rename over the token there is, or an error and no temporary file, *)
GrantRename(o) ==
  /\ op[o].step = "written"
  /\ \/ /\ file' = [token |-> op[o].token, sound |-> TRUE]
        /\ withdrawn' = withdrawn \cup OnDisk
        /\ op' = [op EXCEPT ![o].step = "renamed"]
        /\ UNCHANGED failed
     \/ /\ op' = [op EXCEPT ![o] = Idle]
        /\ failed' = failed \cup {op[o].token}
        /\ UNCHANGED <<file, withdrawn>>
  /\ UNCHANGED <<issued, server, use>>

(* and the permissions of whatever has that name now. When they cannot be    *)
(* set the grant reports an error and the token stays where it is.           *)
GrantEnforce(o) ==
  /\ op[o].step = "renamed"
  /\ op' = [op EXCEPT ![o] = Idle]
  /\ \/ file # None /\ file' = [file EXCEPT !.sound = TRUE] /\ UNCHANGED failed
     \/ failed' = failed \cup {op[o].token} /\ UNCHANGED file
  /\ UNCHANGED <<issued, withdrawn, server, use>>

(* revoke: existsSync, then rmSync or, when that is not permitted, a rename; *)
(* a file that is gone by then is no error.                                  *)
RevokeLook(o) ==
  /\ op[o] = Idle /\ file # None
  /\ op' = [op EXCEPT ![o].step = "revoking"]
  /\ UNCHANGED <<file, issued, withdrawn, failed, server, use>>

(* Mutant: not being permitted to remove the file is taken for success. *)
RevokeNothing(o) ==
  /\ op[o].step = "revoking"
  /\ withdrawn' = withdrawn \cup OnDisk
  /\ op' = [op EXCEPT ![o] = Idle]
  /\ UNCHANGED <<file, issued, failed, server, use>>

RevokeRemove(o) ==
  /\ op[o].step = "revoking"
  /\ file' = None
  /\ withdrawn' = withdrawn \cup OnDisk
  /\ op' = [op EXCEPT ![o] = Idle]
  /\ UNCHANGED <<issued, failed, server, use>>

OperatorDies(o) ==
  /\ op[o] # Idle
  /\ op' = [op EXCEPT ![o] = Idle]
  /\ UNCHANGED <<file, issued, withdrawn, failed, server, use>>

(* Someone loosens the file's permissions or puts a link in its place. *)
Drift ==
  /\ file # None /\ file.sound
  /\ file' = [file EXCEPT !.sound = FALSE]
  /\ UNCHANGED <<op, issued, withdrawn, failed, server, use>>

(* What the constructor loads. *)
Loaded == IF file # None /\ file.sound THEN file.token ELSE None

(* The admin profile does not start without a token. *)
ServerStart(s, profile) ==
  /\ ~server[s].up
  /\ profile = "admin" => Loaded # None
  /\ server' = [server EXCEPT ![s] = [up |-> TRUE, profile |-> profile, record |-> Loaded,
                                      stale |-> withdrawn]]
  /\ UNCHANGED <<file, op, issued, withdrawn, failed, use>>

ServerStop(s) ==
  /\ server[s].up
  /\ server' = [server EXCEPT ![s] = Off]
  /\ UNCHANGED <<file, op, issued, withdrawn, failed, use>>

(* authorize, in its order. The importer passes no profile: "none". *)
Denial(s, type, token, profile) ==
  CASE ProfileRequired(type) /\ profile # "admin" -> "profile_mismatch"
    [] token \notin Tokens -> "capability_malformed"
    [] server[s].record = None -> "capability_missing"
    [] server[s].record # token -> "token_mismatch"
    [] OTHER -> "none"

(* A request with a token: a write that raises trust or sensitivity, a trust *)
(* confirmation, or an import.                                               *)
Authorize(s, type, token) ==
  /\ server[s].up
  /\ Denial(s, type, token, IF ProfileRequired(type) THEN server[s].profile ELSE "none") = "none"
  /\ use' = [token |-> token, type |-> type, profile |-> server[s].profile,
              stale |-> token \in server[s].stale]
  /\ UNCHANGED <<file, op, issued, withdrawn, failed, server>>

(* resolveAuthorization: what a server reads for is fixed when it starts. *)
MaxSensitivity(s) ==
  IF server[s].profile = "admin" /\ server[s].record # None THEN "restricted" ELSE "normal"

Next ==
  \/ \E o \in Operators :
       GrantWrite(o) \/ GrantRename(o) \/ GrantEnforce(o)
         \/ RevokeLook(o) \/ RevokeRemove(o) \/ OperatorDies(o)
  \/ Drift
  \/ \E s \in Servers :
       \/ \E profile \in Profiles : ServerStart(s, profile)
       \/ ServerStop(s)
       \/ \E type \in Types, token \in Tokens \cup {None} : Authorize(s, type, token)

Spec == Init /\ [][Next]_vars

-----------------------------------------------------------------------------
(* A server never accepts a token that was revoked or replaced before it     *)
(* started, whatever grants, revocations and failures crossed each other.    *)
WithdrawnIsRefused == use # None => ~use.stale

(* Trust and sensitivity are only ever raised by a server of the admin       *)
(* profile, and such a server has a token loaded from its start to its end.  *)
PrivilegeNeedsProfile ==
  /\ use # None /\ ProfileRequired(use.type) => use.profile = "admin"
  /\ \A s \in Servers : server[s].up /\ server[s].profile = "admin" => MaxSensitivity(s) = "restricted"

(* A grant that reported an error has installed nothing.                     *)
FailedGrantLeavesNothing ==
  file # None /\ file.token \in failed => \E o \in Operators : op[o].step # "idle"
=============================================================================
