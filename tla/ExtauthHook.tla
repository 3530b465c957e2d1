----------------------------- MODULE ExtauthHook -----------------------------
(***************************************************************************)
(* extauth-hook-AD.py: the plugin that configures a host's sshd for Active *)
(* Directory, and lists the pool administrators who may log in.  xapi runs *)
(* it when AD is enabled or disabled on the host, when a subject is added, *)
(* removed or given another role (once more if another change comes while  *)
(* it runs), and when the host's xapi starts.  A run takes several steps   *)
(* on several files, reads the subjects one by one from a database that    *)
(* goes on changing, and may fail, or the host may crash, half way.        *)
(***************************************************************************)
EXTENDS KeyValueFile, FiniteSets

CONSTANTS
    Subjects,
    KindOf,          \* Subjects -> "user", "group" or "unknown"
    NssFile, SshdFile,    \* the files before AD was ever enabled
    NssKeys, SshdKeys,    \* the keys the hook sets
    ReloadMayFail,   \* may systemctl end with an error?
    SwitchAnyTime,   \* may AD be switched while the hook of the start is under way?
    MaxChanges, MaxSwitches, MaxCrashes    \* bounds

ASSUME HookAssumption ==
    /\ KindOf \in [Subjects -> {"user", "group", "unknown"}] /\ "no file" \notin Subjects
    /\ NssFile \in Seq(Line) /\ SshdFile \in Seq(Line)
    /\ NssKeys \in Seq(STRING) /\ SshdKeys \in Seq(STRING)
    /\ \A i \in DOMAIN NssKeys : Effective(NssFile, NssKeys[i]) # "winbind"
    /\ \A i \in DOMAIN SshdKeys : Effective(SshdFile, SshdKeys[i]) # "yes"
    /\ ReloadMayFail \in BOOLEAN /\ SwitchAnyTime \in BOOLEAN
    /\ MaxChanges \in Nat /\ MaxSwitches \in Nat /\ MaxCrashes \in Nat

Events == {"add", "remove", "roles"}
Callers == Events \cup {"init", "switch"}
None == "none"
NoRun == [step |-> "none"]
NoFile == {"no file"}

VARIABLES
    up,         \* does the host run?
    authType,   \* external_auth_type of the host: "" or "AD"
    subjects,   \* the database: None, "plain" or "admin" (has the role pool-admin)
    caller,     \* for each caller of the hook: step, auth_type argument, again
    poolLock, hostLock,    \* serialize_pool_, serialize_host_enable_disable_extauth
    run,        \* the hook process
    nss, sshd, pam,        \* nsswitch.conf, sshd_config, pam.d/sshd
    lists,      \* hcp_ad_users.conf and hcp_ad_groups.conf: subjects listed, or NoFile
    ok,         \* did the last full refresh, and the last of the lists, succeed?
    changes, switches, crashes

files == <<nss, sshd, pam, lists>>
locks == <<poolLock, hostLock>>
bounds == <<changes, switches, crashes>>
vars == <<up, authType, subjects, caller, locks, run, files, ok, bounds>>

Off == [step |-> "off", arg |-> "", again |-> FALSE]

(* NssConfig and SshdConfig: each key gets the value. *)
UpdateKeys(lines, keys, value) ==
    LET f[i \in 0..Len(keys)] == IF i = 0 THEN lines ELSE Update(f[i - 1], keys[i], value)
    IN  f[Len(keys)]

(* _match_subject of UsersList and GroupsList: a subject that does not say *)
(* which it is belongs to neither.                                         *)
Responsible(list, s) == KindOf[s] = (IF list = "users" THEN "user" ELSE "group")

Admins(list) == {s \in Subjects : subjects[s] = "admin" /\ Responsible(list, s)}

(* AD was never enabled, or is enabled and the hook has run. *)
Init ==
    /\ up = TRUE /\ authType \in {"", "AD"}
    /\ subjects \in {[s \in Subjects |-> None], [s \in Subjects |-> "admin"]}
    /\ caller = [c \in Callers |-> Off]
    /\ poolLock = None /\ hostLock = None /\ run = NoRun
    /\ IF authType = ""
       THEN /\ nss = NssFile /\ sshd = SshdFile /\ pam = "local"
            /\ lists = [users |-> NoFile, groups |-> NoFile]
       ELSE /\ nss = UpdateKeys(NssFile, NssKeys, "winbind")
            /\ sshd = UpdateKeys(SshdFile, SshdKeys, "yes") /\ pam = "ad"
            /\ lists = [users |-> Admins("users"), groups |-> Admins("groups")]
    /\ ok = [all |-> TRUE, lists |-> TRUE]
    /\ changes = 0 /\ switches = 0 /\ crashes = 0

Goto(c, step) == caller' = [caller EXCEPT ![c].step = step]

-----------------------------------------------------------------------------
(* xapi: At_least_once_more.again, after a change of a subject. *)
Again(e) ==
    IF caller[e].step = "off" THEN Goto(e, "pool")
    ELSE caller' = [caller EXCEPT ![e].again = TRUE]

ChangeSubject(s, e) ==
    /\ changes < MaxChanges
    /\ changes' = changes + 1
    /\ \/ e = "add" /\ subjects[s] = None
          /\ \E r \in {"plain", "admin"} : subjects' = [subjects EXCEPT ![s] = r]
       \/ e = "remove" /\ subjects[s] # None /\ subjects' = [subjects EXCEPT ![s] = None]
       \/ e = "roles" /\ subjects[s] # None
          /\ subjects' = [subjects EXCEPT ![s] = IF @ = "admin" THEN "plain" ELSE "admin"]
    /\ Again(e)
    /\ UNCHANGED <<up, authType, locks, run, files, ok, switches, crashes>>

ManagerEndsForgetful(e) ==    \* mutant: a request that came meanwhile is forgotten
    /\ caller[e].step = "loop"
    /\ caller' = [caller EXCEPT ![e] = Off]
    /\ UNCHANGED <<up, authType, subjects, locks, run, files, ok, bounds>>
(* The manager's thread goes round again, or ends. *)
ManagerEnds(e) ==
    /\ caller[e].step = "loop"
    /\ caller' = [caller EXCEPT ![e] = IF @.again THEN [Off EXCEPT !.step = "pool"] ELSE Off]
    /\ UNCHANGED <<up, authType, subjects, locks, run, files, ok, bounds>>

(* run_hook_script_after_subject_*: with the pool's lock, when AD is on. *)
CallInPool(e) ==
    /\ caller[e].step = "pool" /\ poolLock = None
    /\ IF authType # "" THEN poolLock' = e /\ Goto(e, "params")
       ELSE UNCHANGED poolLock /\ Goto(e, "loop")
    /\ UNCHANGED <<up, authType, subjects, hostLock, run, files, ok, bounds>>

(* The host has started: the hook is called if AD is on. *)
CallAtInit ==
    /\ caller["init"].step = "check"
    /\ IF authType # "" THEN Goto("init", "params") ELSE Goto("init", "off")
    /\ UNCHANGED <<up, authType, subjects, locks, run, files, ok, bounds>>

(* call_extauth_hook_script_in_host: get_event_params reads the type ... *)
GetEventParams(c) ==
    /\ caller[c].step = "params"
    /\ caller' = [caller EXCEPT ![c].step = "test", ![c].arg = authType]
    /\ UNCHANGED <<up, authType, subjects, locks, run, files, ok, bounds>>

BackLocked(c) ==    \* mutant: the pool's lock is kept
    /\ caller' = [caller EXCEPT ![c].step = IF c \in Events THEN "loop" ELSE "off", ![c].arg = ""]
    /\ UNCHANGED poolLock
(* A call has ended: the caller goes on. *)
Back(c) ==
    /\ caller' = [caller EXCEPT ![c].step = IF c \in Events THEN "loop" ELSE "off", ![c].arg = ""]
    /\ poolLock' = IF poolLock = c THEN None ELSE poolLock

(* ... and can_execute_extauth_hook_script reads it again; the call of a   *)
(* host that is down fails.                                                *)
CanExecute(c) ==
    /\ caller[c].step = "test"
    /\ IF (authType # "" \/ c = "init") /\ up THEN Goto(c, "host") /\ UNCHANGED poolLock
       ELSE Back(c)
    /\ UNCHANGED <<up, authType, subjects, hostLock, run, files, ok, bounds>>

NewRun(c, all, enabled) ==
    run' = [by |-> c, all |-> all, enabled |-> enabled,
            step |-> IF all THEN "nss" ELSE "users", todo |-> {}, lines |-> {}]

(* call_extauth_plugin, with the host's lock: extauth-hook finds no        *)
(* handler for a type "".                                                  *)
CallPlugin(c) ==
    /\ caller[c].step = "host" /\ c # "switch" /\ hostLock = None
    /\ IF caller[c].arg = "AD"
       THEN hostLock' = c /\ NewRun(c, c = "init", TRUE) /\ Goto(c, "run") /\ UNCHANGED poolLock
       ELSE Back(c) /\ UNCHANGED <<hostLock, run>>
    /\ UNCHANGED <<up, authType, subjects, files, ok, bounds>>

-----------------------------------------------------------------------------
(* host.enable_external_auth and host.disable_external_auth. *)
Enable ==
    /\ up /\ hostLock = None /\ caller["switch"].step = "off"
    /\ SwitchAnyTime \/ caller["init"].step = "off"
    /\ switches < MaxSwitches /\ switches' = switches + 1
    /\ authType = ""
    /\ hostLock' = "switch" /\ authType' = "AD"
    /\ NewRun("switch", TRUE, TRUE) /\ Goto("switch", "enable")
    /\ UNCHANGED <<up, subjects, poolLock, files, ok, changes, crashes>>

Disable ==
    /\ up /\ hostLock = None /\ caller["switch"].step = "off"
    /\ SwitchAnyTime \/ caller["init"].step = "off"
    /\ switches < MaxSwitches /\ switches' = switches + 1
    /\ authType = "AD"
    /\ hostLock' = "switch"
    /\ NewRun("switch", TRUE, FALSE) /\ Goto("switch", "disable")
    /\ UNCHANGED <<up, authType, subjects, poolLock, files, ok, changes, crashes>>

(* on_disable has been called, and the type is cleared. *)
DisableEnds ==
    /\ caller["switch"].step = "cleared" /\ up
    /\ authType' = "" /\ hostLock' = None
    /\ Goto("switch", "off")
    /\ UNCHANGED <<up, subjects, poolLock, run, files, ok, bounds>>

(* The hook returns: True, or the message of a failure, with which enable  *)
(* is undone and disable is given up.                                      *)
RunEnds(success) ==
    /\ run' = NoRun
    /\ ok' = [all |-> IF run.all THEN success ELSE ok.all, lists |-> success]
    /\ IF run.by = "switch"
       THEN /\ IF run.enabled \/ ~success
               THEN hostLock' = None /\ Goto("switch", "off")
               ELSE UNCHANGED hostLock /\ Goto("switch", "cleared")
            /\ authType' = IF run.enabled /\ ~success THEN "" ELSE authType
            /\ UNCHANGED poolLock
       ELSE hostLock' = None /\ Back(run.by) /\ UNCHANGED authType

-----------------------------------------------------------------------------
(* The steps of a run: ConfigManager.refresh_all, or refresh_dynamic_pam,  *)
(* which begins at the lists.                                              *)
Step(step) == run' = [run EXCEPT !.step = step] /\ UNCHANGED <<authType, caller, locks, ok>>

ApplyNss ==
    /\ run.step = "nss"
    /\ nss' = UpdateKeys(nss, NssKeys, IF run.enabled THEN "winbind" ELSE "sss")
    /\ Step("sshd")
    /\ UNCHANGED <<up, subjects, sshd, pam, lists, bounds>>

(* sshd is reloaded after its file is in place; an error of systemctl is   *)
(* not caught by run_cmd, and ends the run.                                *)
ApplySshd ==
    /\ run.step = "sshd"
    /\ sshd' = UpdateKeys(sshd, SshdKeys, IF run.enabled THEN "yes" ELSE "no")
    /\ Step("users") \/ (ReloadMayFail /\ RunEnds(FALSE))
    /\ UNCHANGED <<up, subjects, nss, pam, lists, bounds>>

After(list) ==
    IF list = "users" THEN Step("groups")
    ELSE IF run.all THEN Step("pam") ELSE RunEnds(TRUE)

RemoveList(list) ==
    /\ run.step = list /\ ~run.enabled
    /\ lists' = [lists EXCEPT ![list] = NoFile]
    /\ After(list)
    /\ UNCHANGED <<up, subjects, nss, sshd, pam, bounds>>

(* subject.get_all *)
GetAll(list) ==
    /\ run.step = list /\ run.enabled
    /\ run' = [run EXCEPT !.step = IF list = "users" THEN "usersRead" ELSE "groupsRead",
                          !.todo = {s \in Subjects : subjects[s] # None}, !.lines = {}]
    /\ UNCHANGED <<up, authType, subjects, caller, locks, files, ok, bounds>>

Reading(list) == run.step = (IF list = "users" THEN "usersRead" ELSE "groupsRead")

(* subject.get_record of each: one that is no longer there raises, and the *)
(* subjects after it are left out.                                         *)
GetRecord(list, s) ==
    /\ Reading(list) /\ s \in run.todo
    /\ run' = IF subjects[s] = None THEN [run EXCEPT !.todo = {}]
              ELSE [run EXCEPT !.todo = @ \ {s},
                               !.lines = IF subjects[s] = "admin" /\ Responsible(list, s)
                                         THEN @ \cup {s} ELSE @]
    /\ UNCHANGED <<up, authType, subjects, caller, locks, files, ok, bounds>>

InstallList(list) ==
    /\ Reading(list) /\ run.todo = {}
    /\ lists' = [lists EXCEPT ![list] = run.lines]
    /\ After(list)
    /\ UNCHANGED <<up, subjects, nss, sshd, pam, bounds>>

ApplyStaticPamAd ==    \* mutant: the file is AD's when AD is disabled too
    /\ run.step = "pam"
    /\ pam' = "ad"
    /\ RunEnds(TRUE)
    /\ UNCHANGED <<up, subjects, nss, sshd, lists, bounds>>
(* pam.d/sshd, then pam_winbind.conf, which is the same either way. *)
ApplyStaticPam ==
    /\ run.step = "pam"
    /\ pam' = IF run.enabled THEN "ad" ELSE "local"
    /\ RunEnds(TRUE)
    /\ UNCHANGED <<up, subjects, nss, sshd, lists, bounds>>

RunStep ==
    \/ ApplyNss \/ ApplySshd \/ ApplyStaticPam
    \/ \E list \in {"users", "groups"} :
        \/ RemoveList(list) \/ GetAll(list) \/ InstallList(list)
        \/ \E s \in Subjects : GetRecord(list, s)

-----------------------------------------------------------------------------
(* The host crashes: the run, the host's lock and the calls made on it are *)
(* gone; the callers elsewhere in the pool see their call fail.            *)
Crash ==
    /\ up /\ crashes < MaxCrashes /\ crashes' = crashes + 1
    /\ up' = FALSE
    /\ run' = NoRun /\ hostLock' = None
    /\ caller' = [c \in Callers |->
           IF c \in {"init", "switch"} THEN Off
           ELSE IF caller[c].step \in {"host", "run"}
                THEN [caller[c] EXCEPT !.step = "loop", !.arg = ""] ELSE caller[c]]
    /\ poolLock' = IF poolLock # None /\ caller[poolLock].step \in {"host", "run"}
                   THEN None ELSE poolLock
    /\ UNCHANGED <<authType, subjects, files, ok, changes, switches>>

Start ==
    /\ ~up /\ up' = TRUE
    /\ Goto("init", "check")
    /\ UNCHANGED <<authType, subjects, locks, run, files, ok, bounds>>

Proceed ==
    \/ RunStep \/ CallAtInit \/ DisableEnds \/ Start
    \/ \E e \in Events : ManagerEnds(e) \/ CallInPool(e)
    \/ \E c \in Callers : GetEventParams(c) \/ CanExecute(c) \/ CallPlugin(c)

Next ==
    \/ Proceed
    \/ \E s \in Subjects, e \in Events : ChangeSubject(s, e)
    \/ Enable \/ Disable \/ Crash

Spec == Init /\ [][Next]_vars

(* Something that can go on does.  No more is needed: only a change in the *)
(* database makes a thread go round again.                                 *)
FairSpec == Spec /\ WF_vars(Proceed)

-----------------------------------------------------------------------------
Quiet == up /\ hostLock = None /\ \A c \in Callers : caller[c].step = "off"

(* When nothing is under way on an AD host, the lists are exactly the pool *)
(* administrators of the database: no change is lost to a run that had     *)
(* read the database before it, to a subject that went away while it was   *)
(* read, to a crash, or to AD being enabled at the same time.              *)
ListsExact ==
    (Quiet /\ authType = "AD" /\ ok.lists) =>
        lists = [users |-> Admins("users"), groups |-> Admins("groups")]

(* When nothing is under way, the files agree with the host's type, "if    *)
(* host-extauth is already disabled then the script will just return":     *)
(* sshd, its PAM file and the name services are AD's exactly on a host that   *)
(* has AD enabled.                                                         *)
FilesAgree ==
    (Quiet /\ ok.all) =>
        LET on == authType = "AD" IN
        /\ pam = (IF on THEN "ad" ELSE "local")
        /\ \A i \in DOMAIN NssKeys : (Effective(nss, NssKeys[i]) = "winbind") <=> on
        /\ \A i \in DOMAIN SshdKeys : (Effective(sshd, SshdKeys[i]) = "yes") <=> on
        /\ on => lists.users # NoFile /\ lists.groups # NoFile

(* The lines of the files that are not the hook's are as they were before  *)
(* it ever ran, each at its place, however often it has run: comments,     *)
(* lines it cannot parse, and repetitions of its own keys.                 *)
OtherLinesKept ==
    LET Keys(seq) == {seq[i] : i \in DOMAIN seq}
    IN  /\ Others(nss, Keys(NssKeys)) = Others(NssFile, Keys(NssKeys))
        /\ Others(sshd, Keys(SshdKeys)) = Others(SshdFile, Keys(SshdKeys))

(* Whoever is no longer a pool administrator is taken off the lists, if    *)
(* the refreshing of the lists does not fail.                              *)
RevokedLeaves ==
    \A s \in Subjects :
        (authType = "AD" /\ subjects[s] # "admin" /\ s \in lists.users \cup lists.groups)
            ~> (subjects[s] = "admin" \/ s \notin lists.users \cup lists.groups \/ ~ok.lists)
=============================================================================
