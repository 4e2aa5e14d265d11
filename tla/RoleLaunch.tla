----------------------------- MODULE RoleLaunch -----------------------------
(***************************************************************************)
(* The launcher of the containers, integration/containers/entrypoint.py,   *)
(* and the start of the catalog job, integration/search_sync.py: which     *)
(* tokens a role starts with (secret, configure), and how the encoder is   *)
(* prepared in a runtime volume that outlives the container and the image  *)
(* (prepare_encoder).                                                      *)
(*                                                                         *)
(* All containers of a deployment see the same environment and secret      *)
(* files.  There is one Search container on its volume at a time; catalog  *)
(* jobs share theirs, and may be started while another runs.  A file is    *)
(* copied by truncating and writing (shutil.copyfile); content is          *)
(* abstracted to the image it comes from.  The Console's contract request  *)
(* and the settings that are only passed on are left out.                  *)
(***************************************************************************)
EXTENDS Integers, Sequences, FiniteSets

CONSTANTS
    Containers,
    Files,          \* bound: the encoder's code files, in the order they are copied
    Tokens,         \* values of the internal token
    MaxImage,       \* bound: images deployed, 0 the first
    MaxCleanings,   \* bound: volumes replaced by the operator
    Unset           \* no value, no file, no token

VARIABLES
    env,            \* the environment: sources of the tokens, what an audit says
    image,          \* the image deployed
    volume,         \* the runtime volumes of Search and of the job
    container,
    cleanings

launchVars == <<env, image, volume, container, cleanings>>

Prepares == {"search", "sync"}
Roles == Prepares \union {"chat", "profiler"}

LaunchAssumption ==
    /\ Files \in Seq(STRING) /\ Len(Files) > 0
    /\ MaxImage \in Nat /\ MaxCleanings \in Nat /\ Unset \notin Tokens

FileNames == {Files[i] : i \in 1..Len(Files)}

(* What is in a file of a volume: nothing, a part, or an image's code. *)
Absent == -2
Part == -1
Contents == {Absent, Part} \union (0..MaxImage)
EmptyVolume == [f \in FileNames |-> Absent]

(* A secret: the variable, and a configured file that exists or not. *)
Sources == [value : Tokens \union {Unset}, path : BOOLEAN, file : Tokens \union {Unset}]
Names == {"AI_INTERNAL_SERVICE_TOKEN", "AI_SERVICE_TOKEN"}

Off == [phase |-> "off", role |-> Unset, token |-> Unset, file |-> 0]
Phases == {"off", "assets", "files", "truncate", "write", "links", "running"}

LaunchTypeOK ==
    /\ env \in [source : [Names -> Sources], shared : BOOLEAN, audit : BOOLEAN, assets : BOOLEAN]
    /\ image \in 0..MaxImage /\ cleanings \in 0..MaxCleanings
    /\ volume \in [Prepares -> [FileNames -> Contents]]
    /\ container \in [Containers ->
         [phase : Phases, role : Roles \union {Unset}, token : Tokens \union {Unset},
          file : 0..Len(Files)]]

LaunchInit ==
    /\ env \in [source : [Names -> Sources], shared : BOOLEAN, audit : BOOLEAN, assets : BOOLEAN]
    /\ \A n \in Names : env.source[n].path \/ env.source[n].file = Unset
    /\ image = 0 /\ cleanings = 0
    /\ volume = [r \in Prepares |-> EmptyVolume]
    /\ container = [c \in Containers |-> Off]

-----------------------------------------------------------------------------
(* secret(): a configured file wins; a path that is not there does not *)
(* hide a value. *)
Secret(name) ==
    LET s == env.source[name] IN IF s.path /\ s.file # Unset THEN s.file ELSE s.value

(* ServiceToken.from_environment: shared authentication and the old name *)
(* exclude each other. *)
Managed == env.shared
OldName ==
    LET s == env.source["AI_SERVICE_TOKEN"] IN s.value # Unset

Internal == Secret("AI_INTERNAL_SERVICE_TOKEN")
Legacy == Secret("AI_SERVICE_TOKEN")

(* A file that is named and not there, with no value to fall back on. *)
Unreadable(name) ==
    LET s == env.source[name] IN s.path /\ s.file = Unset /\ s.value = Unset

(* The internal token a role starts with, or Unset if it refuses. *)
SearchToken ==
    IF \/ \E name \in Names : Unreadable(name)
       \/ Internal # Unset /\ Legacy # Unset /\ Internal # Legacy THEN Unset
    ELSE IF Internal # Unset THEN Internal ELSE Legacy

Token(role) ==
    IF role = "search" THEN SearchToken
    ELSE IF Managed THEN (IF OldName THEN Unset ELSE Internal) ELSE Legacy

Holds(c, v) == container' = [container EXCEPT ![c] = v]

(* configure(): the token, the audit of the role's database, and for *)
(* Search the encoder.  The job has only its own secrets. *)
Launch(c, role) ==
    /\ container[c].phase = "off"
    /\ role = "search" => \A d \in Containers : container[d].role # "search"
    /\ env.audit /\ (role # "sync" => Token(role) # Unset)
    /\ Holds(c, [phase |-> IF role \in Prepares THEN "assets" ELSE "running", role |-> role,
                 token |-> IF role = "sync" THEN Unset ELSE Token(role), file |-> 0])
    /\ UNCHANGED <<env, image, volume, cleanings>>

-----------------------------------------------------------------------------
(* prepare_encoder() *)

Here(c) == volume[container[c].role]
File(c) == Files[container[c].file]
Puts(c, content) == volume' = [volume EXCEPT ![container[c].role][File(c)] = content]

(* The models of the lock file, with size and hash. *)
CheckAssets(c) ==
    /\ container[c].phase = "assets"
    /\ Holds(c, IF env.assets THEN [container[c] EXCEPT !.phase = "files", !.file = 1] ELSE Off)
    /\ UNCHANGED <<env, image, volume, cleanings>>

(* The next file, or the links. *)
Onward(c) ==
    IF container[c].file = Len(Files) THEN [container[c] EXCEPT !.phase = "links"]
    ELSE [container[c] EXCEPT !.phase = "files", !.file = @ + 1]

SameFile(c) == Here(c)[File(c)] = image

LookAtFile(c) ==
    /\ container[c].phase = "files"
    /\ Holds(c, IF Here(c)[File(c)] = Absent THEN [container[c] EXCEPT !.phase = "truncate"]
                ELSE IF SameFile(c) THEN Onward(c) ELSE Off)
    /\ UNCHANGED <<env, image, volume, cleanings>>

Truncate(c) ==
    /\ container[c].phase = "truncate" /\ Puts(c, Part)
    /\ Holds(c, [container[c] EXCEPT !.phase = "write"])
    /\ UNCHANGED <<env, image, cleanings>>

Write(c) ==
    /\ container[c].phase = "write" /\ Puts(c, image) /\ Holds(c, Onward(c))
    /\ UNCHANGED <<env, image, cleanings>>

(* The links to the mounted models and to the image's modules: the same *)
(* paths in every image. *)
Links(c) ==
    /\ container[c].phase = "links"
    /\ Holds(c, [container[c] EXCEPT !.phase = "running"])
    /\ UNCHANGED <<env, image, volume, cleanings>>

-----------------------------------------------------------------------------
(* A container ends or is killed; what it was copying stays as it is. *)
Ends(c) ==
    /\ container[c].phase # "off" /\ Holds(c, Off)
    /\ UNCHANGED <<env, image, volume, cleanings>>

NonePrepares(role) == \A c \in Containers : container[c].role # role

(* A deployment stops the containers of the image before. *)
Deploy ==
    /\ image < MaxImage /\ \A role \in Prepares : NonePrepares(role)
    /\ image' = image + 1
    /\ UNCHANGED <<env, volume, container, cleanings>>

(* "use a separately prepared runtime" *)
NewVolume(role) ==
    /\ cleanings < MaxCleanings /\ cleanings' = cleanings + 1 /\ NonePrepares(role)
    /\ volume' = [volume EXCEPT ![role] = EmptyVolume]
    /\ UNCHANGED <<env, image, container>>

LaunchNext ==
    \/ \E c \in Containers :
         \/ \E role \in Roles : Launch(c, role)
         \/ CheckAssets(c) \/ LookAtFile(c) \/ Truncate(c) \/ Write(c) \/ Links(c) \/ Ends(c)
    \/ Deploy
    \/ \E role \in Prepares : NewVolume(role)

LaunchSpec == LaunchInit /\ [][LaunchNext]_launchVars

-----------------------------------------------------------------------------
(* An encoder is the one of its image: whatever copy was cut short and *)
(* whatever an older image left in the volume, Search runs on the whole *)
(* code of its image, and no job ever runs on another image's (entrypoint *)
(* .py prepare_encoder).  A job that copies the same file may have cut *)
(* it short. *)
EncoderIsTheImages ==
    \A c \in Containers :
        container[c].phase = "running" /\ container[c].role \in Prepares =>
            \A f \in FileNames :
                \/ Here(c)[f] = image
                \/ container[c].role = "sync" /\ Here(c)[f] = Part

(* From one environment Search takes the token that Chat and the Profiler *)
(* send it, or somebody does not start: a half-renamed or conflicting *)
(* secret never ends in a deployment that answers itself 401 (entrypoint *)
(* .py configure). *)
RolesAgree ==
    \A c, d \in Containers :
        /\ container[c].phase = "running" /\ container[c].role # "sync"
        /\ container[d].phase = "running" /\ container[d].role # "sync"
        => container[c].token = container[d].token
=============================================================================
