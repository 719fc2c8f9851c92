------------------------------ MODULE Programs ------------------------------
(***************************************************************************)
(* Every desktop command (commands), REST handler (api_server/handlers)    *)
(* and background task that takes one of the application's locks, as a     *)
(* program: the sequence of its steps in the order of the code.  A step is *)
(* what happens between two awaits that another task can overtake; what    *)
(* the steps do is said in Operations.  There is no state here.            *)
(***************************************************************************)
EXTENDS Naturals, Sequences

Locks == {"apiOp", "server", "backup", "tunnel", "gate", "mutation"}

-----------------------------------------------------------------------------
(* Steps of programs.                                                      *)

Do(what) == <<what>>
With(what, arg) == <<what, arg>>
Lock(l) == <<"lock", l>>
Read(l) == <<"read", l>>
Drop(ls) == <<"drop", ls>>
\* the block runs if the condition holds
When(cond, block) == << <<"unless", <<cond, Len(block)>>>> >> \o block
\* a failure inside the block continues with the handler, with only "keep" still held
Try(block, keep, handler) ==
  block \o << <<"catch", <<keep, Len(block), Len(handler)>>>> >> \o handler

\* the state's configuration mutex, for an edit accepted when "ticket" was taken
Mutation == <<Lock("mutation"), Do("fresh")>>
\* begin_replacement
Replacement == <<Lock("mutation"), Do("replace")>>

-----------------------------------------------------------------------------
(* The REST server's own operations (commands/api_server_cmd.rs).          *)

\* a handle whose task has ended is taken and shut down
Reap == When("finished", <<Do("take"), Drop({"server"}), Do("drain"), Lock("server")>>)

TakeAndDrain == <<Lock("server"), Do("take"), Drop({"server"}), Do("drain")>>

start_api_server_inner ==
  <<Do("notShutting"), Do("names"), Lock("server")>> \o Reap
  \o When("running", <<Do("cache"), Do("closeDisallowed")>>)
  \o When("stopped",
          When("noKey", <<Do("ticket")>> \o Mutation \o <<With("edit", "key"), Drop({"mutation"})>>)
          \o <<Do("start")>>)
  \o <<Drop({"server"})>>

sync_api_server_authorization_cache ==
  <<Do("configured"), Lock("server")>> \o When("running", <<Do("cache")>>) \o <<Drop({"server"})>>

reconcile_inner ==
  <<Lock("server")>> \o Reap
  \o When("noneAllowed", <<Do("take"), Drop({"server"}), Do("drain")>>)
  \o When("someAllowed", When("running", <<Do("cache"), Do("closeDisallowed")>>))
  \o <<Drop({"server"})>>

reconcile_api_server_with_snapshot == <<Lock("apiOp"), Do("configured")>> \o reconcile_inner

api_server_configure_and_start ==
  <<Do("cancelStartup"), Do("ticket"), Lock("apiOp"), Do("unlocked"), Lock("server"), Drop({"server"})>>
  \o Mutation \o <<With("edit", "allow")>> \o sync_api_server_authorization_cache
  \o <<Drop({"mutation"})>> \o Try(start_api_server_inner, {"apiOp"}, TakeAndDrain)

\* seeded fault: the cancellation is not looked at again when the lock is granted
spawn_api_server_autostart_hasty ==
  Try(<<Do("notCancelled"), Lock("apiOp"), Do("wantsStart")>> \o start_api_server_inner,
      {}, <<Do("again")>>)
  \o <<Drop({"apiOp"}), Lock("apiOp"), Do("notCancelled")>>

\* retry_api_start around the attempts of spawn_api_server_autostart
spawn_api_server_autostart ==
  Try(<<Do("notCancelled"), Lock("apiOp"), Do("notCancelled"), Do("wantsStart")>>
      \o start_api_server_inner,
      {}, <<Do("again")>>)
  \o <<Drop({"apiOp"}), Lock("apiOp"), Do("notCancelled")>>

api_server_stop ==
  <<Do("cancelStartup"), Lock("server"), Do("requestShutdown"), Drop({"server"}), Lock("apiOp")>>
  \o TakeAndDrain \o <<Do("stopReturns")>>

api_server_status ==
  <<Lock("apiOp"), Lock("server")>>
  \o When("finished", <<Do("take"), Drop({"server"}), Do("drain")>>)

api_server_regenerate_key ==
  <<Do("cancelStartup"), Do("ticket"), Lock("apiOp"), Do("unlocked")>>
  \o Mutation \o <<With("edit", "key"), Drop({"mutation"}), Lock("server"), Do("take"), Drop({"server"})>>
  \o When("hadHandle", <<Do("cached"), Do("drain"), Do("restart"), Lock("server"), Do("install")>>)

stop_api_server_for_config_replacement == <<Do("cancelStartup"), Lock("apiOp")>> \o TakeAndDrain

restore_api_server_after_config_replacement ==
  When("wasRunning", <<Do("normalized"), Lock("apiOp")>> \o start_api_server_inner)

api_server_logs == <<Lock("server")>>

\* shutdown_runtime, after begin_shutdown
shutdown_runtime ==
  <<Do("beginShutdown"), Do("cancelStartup"), Lock("server"), Do("requestShutdown"), Drop({"server"}),
    Lock("apiOp")>>
  \o TakeAndDrain
  \o <<Lock("backup"), Lock("tunnel"), Lock("gate"), Do("closeAll"), Do("shutdownDone")>>

-----------------------------------------------------------------------------
(* Desktop commands.                                                       *)

\* an edit that neither connections, forwards nor the server depend on
quick_command_upsert == <<Do("ticket")>> \o Mutation \o <<With("edit", "other")>>
quick_command_delete == quick_command_upsert
settings_ignore_update_version == quick_command_upsert
connection_section_state_update == quick_command_upsert
group_create == quick_command_upsert
group_update == quick_command_upsert
group_delete == quick_command_upsert
session_create == quick_command_upsert
session_favorite_update == quick_command_upsert
session_mark_recent == quick_command_upsert
session_clear_recent == quick_command_upsert

\* the fingerprint is part of what a connect compares, but no lock of connections is taken
ssh_trust_host_key == <<Do("ticket")>> \o Mutation \o <<With("edit", "trust")>>

\* seeded fault: the guards of tunnels and connections are still held while reconciling
session_update_holding ==
  <<Do("ticket"), Lock("tunnel"), Lock("gate")>> \o Mutation
  \o <<With("edit", "session"), Drop({"mutation"})>>
  \o When("changed", <<Do("closeSession")>>)
  \o reconcile_api_server_with_snapshot

session_update ==
  <<Do("ticket"), Lock("tunnel"), Lock("gate")>> \o Mutation
  \o <<With("edit", "session"), Drop({"mutation"})>>
  \o When("changed", <<Do("closeSession")>>)
  \o <<Drop({"gate", "tunnel"})>> \o reconcile_api_server_with_snapshot

session_delete ==
  <<Do("ticket"), Lock("apiOp"), Lock("tunnel"), Lock("gate")>> \o Mutation
  \o <<With("edit", "delete")>> \o sync_api_server_authorization_cache
  \o <<Drop({"mutation"}), Do("closeSession"), Drop({"gate", "tunnel", "apiOp"})>>
  \o reconcile_api_server_with_snapshot

settings_proxy_update ==
  <<Do("ticket"), Lock("tunnel"), Lock("gate")>> \o Mutation
  \o <<With("edit", "proxy"), Drop({"mutation"}), Do("closeAll")>>

settings_ai_api_update ==
  <<Do("ticket"), Lock("apiOp")>> \o Mutation \o <<With("edit", "allow")>>
  \o sync_api_server_authorization_cache
  \o <<Drop({"mutation", "apiOp"})>> \o reconcile_api_server_with_snapshot

connect_session ==
  <<Read("gate"), With("build", "desktop"), With("connect", "desktop"), With("valid", "desktop"),
    Drop({"gate"})>>

ssh_connect ==
  <<Read("gate"), With("build", "desktop"), With("connect", "new"), With("valid", "desktop"),
    Drop({"gate"}), Do("spawnRestore")>>

ssh_disconnect == <<Do("unlocked"), Do("disconnect")>>

ssh_exec == connect_session \o <<With("use", "desktop")>>

\* commands on a connection the front end has
ssh_exec_on_connection == <<Do("unlocked"), With("use", "desktop")>>
latency_probe == ssh_exec_on_connection
telemetry_start == ssh_exec_on_connection
sftp_commands == ssh_exec_on_connection
terminal_commands == ssh_exec_on_connection

restore_tunnel == When("noForward", <<With("stopForwards", "any"), With("forward", "desktop")>>)

restore_tunnels_after_connect ==
  <<Lock("tunnel"), Read("gate"), Do("listed"), Do("wanted")>> \o restore_tunnel

forward_start_local ==
  <<Lock("tunnel")>> \o When("noForward", connect_session \o <<With("forward", "form")>>)
forward_start_remote == forward_start_local
forward_start_dynamic == forward_start_local

forward_list == <<Lock("tunnel"), Do("unlocked")>>

forward_stop ==
  <<Do("ticket"), Lock("tunnel"), Do("unlocked")>>
  \o When("tunnelForward", Mutation \o <<With("edit", "disable"), Drop({"mutation"})>>)
  \o <<Do("forwardStop")>>

tunnel_create == <<Do("ticket"), Lock("tunnel")>> \o Mutation \o <<With("edit", "tunnelCreate")>>

tunnel_update ==
  <<Do("ticket"), Lock("tunnel"), Read("gate")>> \o Mutation
  \o <<Do("tunnelExists"), With("stopForwards", "any"), With("edit", "tunnelUpdate"), Drop({"mutation"})>>
  \o When("restorable", restore_tunnel)

\* seeded fault: the tunnel is deleted first, its forwards stopped when the guards are gone
tunnel_delete_first ==
  <<Do("ticket"), Lock("tunnel")>> \o Mutation
  \o <<With("edit", "tunnelDelete"), Drop({"mutation", "tunnel"})>>

tunnel_delete ==
  <<Do("ticket"), Lock("tunnel")>> \o Mutation
  \o <<With("stopForwards", "any"), With("edit", "tunnelDelete")>>

tunnel_set_enabled ==
  <<Do("ticket"), Lock("tunnel"), Read("gate")>> \o Mutation
  \o <<With("edit", "enabled"), Drop({"mutation"})>>
  \o When("restorable", restore_tunnel)
  \o When("disabled", <<With("stopForwards", "any")>>)

\* seeded fault: the backup lock is taken before the server has drained
vault_backup_import_locking_first ==
  <<Do("validBackup"), Lock("backup")>> \o stop_api_server_for_config_replacement
  \o <<Lock("tunnel"), Lock("gate")>> \o Replacement
  \o <<Do("closeAll")>> \o Try(<<With("edit", "import")>>, Locks, <<>>)
  \o <<Drop(Locks)>> \o restore_api_server_after_config_replacement

vault_backup_import ==
  <<Do("validBackup")>> \o stop_api_server_for_config_replacement
  \o <<Lock("backup"), Lock("tunnel"), Lock("gate")>> \o Replacement
  \o <<Do("closeAll")>> \o Try(<<With("edit", "import")>>, Locks, <<>>)
  \o <<Drop(Locks)>> \o restore_api_server_after_config_replacement

backup_record_restore ==
  <<Do("validBackup")>> \o stop_api_server_for_config_replacement \o <<Lock("backup")>>
  \o Try(<<Do("validBackup"), Lock("tunnel"), Lock("gate")>> \o Replacement
          \o <<Do("closeAll"), With("edit", "import")>>, {"apiOp", "backup"}, <<>>)
  \o <<Drop(Locks)>> \o restore_api_server_after_config_replacement

vault_backup_export == <<Lock("backup"), Do("unlocked")>>

settings_backup_update ==
  <<Do("ticket"), Lock("backup")>> \o Mutation
  \o <<With("edit", "retention"), Drop({"mutation"}), Do("removeFiles")>>

\* seeded fault: the lock of backups is released while the copy is written
backup_run_now_unlocked ==
  <<Do("ticket"), Lock("backup")>> \o Mutation
  \o <<Do("plan"), Drop({"mutation", "backup"}), Do("writeBackup")>> \o Mutation
  \o <<With("edit", "records"), Drop({"mutation"}), Do("removeFiles")>>

backup_run_now ==
  <<Do("ticket"), Lock("backup")>> \o Mutation
  \o <<Do("plan"), Drop({"mutation"}), Do("writeBackup")>> \o Mutation
  \o <<With("edit", "records"), Drop({"mutation"}), Do("removeFiles")>>

backup_run_auto == backup_run_now

\* what is due is decided before, and not again when the locks are granted
run_due_auto_backup == <<Do("unlocked")>> \o backup_run_auto

backup_record_delete ==
  <<Do("ticket"), Lock("backup")>> \o Mutation
  \o <<With("edit", "recordDelete"), Drop({"mutation"}), Do("removeFiles")>>

backup_records_clear ==
  <<Do("ticket"), Lock("backup")>> \o Mutation \o <<With("edit", "recordsClear")>>

-----------------------------------------------------------------------------
(* REST handlers.                                                          *)

\* seeded fault: the configuration is not compared again after connecting
connect_automation_trusting ==
  <<Read("gate"), With("build", "automation"), Drop({"gate"}), With("connect", "automation"),
    Do("stillAllowed")>>

connect_automation ==
  <<Read("gate"), With("build", "automation"), Drop({"gate"}), With("connect", "automation"),
    Do("stillAllowed"), With("valid", "automation")>>

ensure_api_session_ready == <<Do("accessAndExists")>> \o When("disconnected", connect_automation)

\* handlers that only read
rest_sessions == <<Do("auth")>>
auth_check == <<Do("auth")>>
rest_fields == <<Do("auth")>>
rest_openapi == <<Do("auth")>>
rest_tunnels_list == <<Do("auth")>>
rest_backup_settings_get == <<Do("auth")>>
rest_backup_records_list == <<Do("auth")>>

rest_connect == <<Do("auth"), Do("access")>> \o connect_automation

rest_disconnect == <<Do("auth"), Do("access"), Do("apiDisconnect")>>

rest_exec ==
  <<Do("auth"), Do("access")>> \o ensure_api_session_ready
  \o <<Do("permit"), Do("access"), With("use", "automation"), With("reply", "checked")>>

\* two items one after the other; a failed item does not fail the batch
BatchItem ==
  Try(<<Do("permit"), Do("access"), With("use", "automation")>>, {}, <<>>)

rest_exec_batch ==
  <<Do("auth"), Do("access")>> \o ensure_api_session_ready
  \o BatchItem \o BatchItem \o <<With("reply", "checked")>>

rest_latency ==
  <<Do("auth"), Do("access")>> \o ensure_api_session_ready
  \o <<With("use", "automation"), With("reply", "checked")>>

ensure_sftp == ensure_api_session_ready \o <<With("open", "automation")>>

rest_files ==
  <<Do("auth"), Do("access")>> \o ensure_sftp
  \o <<With("use", "automation"), With("reply", "checked")>>

rest_files_page ==
  <<Do("auth"), Do("valid request"), Do("access")>> \o ensure_sftp
  \o <<With("use", "automation"), With("reply", "checked")>>

rest_file_stat == rest_files

upload_file_raw ==
  <<Do("auth"), Do("valid request"), Do("access")>> \o ensure_sftp
  \o <<With("use", "automation"), With("reply", "checked")>>

\* the answer is a stream, which ends with the connection
download_file ==
  <<Do("auth"), Do("access")>> \o ensure_sftp
  \o <<With("use", "automation"), Do("access"), With("open", "automation")>>

rest_tunnels_create ==
  <<Do("auth"), Do("ticket"), Lock("tunnel")>> \o Mutation
  \o <<Do("auth"), Do("access"), With("edit", "tunnelCreate")>>

rest_tunnels_update ==
  <<Do("auth"), Do("ticket"), Lock("tunnel")>> \o Mutation
  \o <<Do("auth"), Do("tunnelExists"), Do("access"), With("stopForwards", "any"),
       With("edit", "tunnelUpdate")>>

rest_tunnels_delete ==
  <<Do("auth"), Do("ticket"), Lock("tunnel")>> \o Mutation
  \o <<Do("auth"), Do("tunnelExists"), Do("access"), With("stopForwards", "any"),
       With("edit", "tunnelDelete")>>

\* seeded fault: the access is not verified again when the forward runs
rest_tunnels_start_unchecked ==
  <<Do("auth"), Lock("tunnel"), Do("auth"), Do("tunnelExists"), Do("accessAndExists"),
    Read("gate"), With("build", "automation"), Drop({"gate"}), With("connect", "automation"),
    With("valid", "automation"), With("forward", "automation")>>

rest_tunnels_start ==
  <<Do("auth"), Lock("tunnel"), Do("auth"), Do("tunnelExists"), Do("accessAndExists")>>
  \o connect_automation \o <<With("forward", "automation"), Do("stillAllowedForward")>>

rest_tunnels_stop ==
  <<Do("auth"), Lock("tunnel"), Do("auth"), Do("tunnelExists"), Do("access"),
    With("stopForwards", "automation")>>

mutate_backup_settings ==
  <<Do("auth"), Do("ticket"), Lock("backup")>> \o Mutation
  \o <<Do("auth"), With("edit", "retention"), Drop({"mutation"}), Do("removeFiles")>>

rest_backup_settings_update == mutate_backup_settings
rest_backup_settings_patch == <<Do("valid request")>> \o mutate_backup_settings

rest_backup_run ==
  <<Do("auth"), Do("ticket"), Lock("backup")>> \o Mutation
  \o <<Do("auth"), Do("plan"), Drop({"mutation"}), Do("writeBackup")>> \o Mutation
  \o <<With("edit", "records"), Drop({"mutation"}), Do("removeFiles")>>

rest_backup_record_delete ==
  <<Do("auth"), Do("ticket"), Lock("backup")>> \o Mutation
  \o <<Do("auth"), With("edit", "recordDelete"), Drop({"mutation"}), Do("removeFiles")>>

-----------------------------------------------------------------------------
(* What a dropped handler leaves to the threads that run blocking calls:   *)
(* the store operation of vault_blocking, or a call of tokio::fs.  It has  *)
(* none of the handler's guards.                                           *)
LateEdits ==
  {"tunnelCreate", "tunnelUpdate", "tunnelDelete", "retention", "records", "recordDelete"}
LateOps == LateEdits \cup {"writeBackup", "removeFiles"}
Late(op) == IF op \in LateEdits THEN <<With("edit", op)>> ELSE <<Do(op)>>

-----------------------------------------------------------------------------
Desktop ==
  [api_server_configure_and_start |-> api_server_configure_and_start,
   spawn_api_server_autostart |-> spawn_api_server_autostart, api_server_stop |-> api_server_stop,
   api_server_status |-> api_server_status, api_server_regenerate_key |-> api_server_regenerate_key,
   api_server_logs |-> api_server_logs, shutdown_runtime |-> shutdown_runtime,
   quick_command_upsert |-> quick_command_upsert, quick_command_delete |-> quick_command_delete,
   settings_ignore_update_version |-> settings_ignore_update_version,
   connection_section_state_update |-> connection_section_state_update,
   group_create |-> group_create, group_update |-> group_update, group_delete |-> group_delete,
   session_create |-> session_create, session_favorite_update |-> session_favorite_update,
   session_mark_recent |-> session_mark_recent, session_clear_recent |-> session_clear_recent,
   ssh_trust_host_key |-> ssh_trust_host_key, session_update |-> session_update,
   session_delete |-> session_delete, settings_proxy_update |-> settings_proxy_update,
   settings_ai_api_update |-> settings_ai_api_update, ssh_connect |-> ssh_connect,
   ssh_disconnect |-> ssh_disconnect, ssh_exec |-> ssh_exec,
   ssh_exec_on_connection |-> ssh_exec_on_connection, latency_probe |-> latency_probe,
   telemetry_start |-> telemetry_start, sftp_commands |-> sftp_commands,
   terminal_commands |-> terminal_commands,
   restore_tunnels_after_connect |-> restore_tunnels_after_connect,
   forward_start_local |-> forward_start_local, forward_start_remote |-> forward_start_remote,
   forward_start_dynamic |-> forward_start_dynamic, forward_stop |-> forward_stop,
   forward_list |-> forward_list,
   tunnel_create |-> tunnel_create, tunnel_update |-> tunnel_update, tunnel_delete |-> tunnel_delete,
   tunnel_set_enabled |-> tunnel_set_enabled, vault_backup_import |-> vault_backup_import,
   backup_record_restore |-> backup_record_restore, vault_backup_export |-> vault_backup_export,
   settings_backup_update |-> settings_backup_update, backup_run_now |-> backup_run_now,
   run_due_auto_backup |-> run_due_auto_backup, backup_record_delete |-> backup_record_delete,
   backup_records_clear |-> backup_records_clear]

Rest ==
  [rest_sessions |-> rest_sessions, auth_check |-> auth_check, rest_fields |-> rest_fields,
   rest_openapi |-> rest_openapi, rest_tunnels_list |-> rest_tunnels_list,
   rest_backup_settings_get |-> rest_backup_settings_get,
   rest_backup_records_list |-> rest_backup_records_list, rest_connect |-> rest_connect, rest_disconnect |-> rest_disconnect,
   rest_exec |-> rest_exec, rest_exec_batch |-> rest_exec_batch, rest_latency |-> rest_latency,
   rest_files |-> rest_files, rest_files_page |-> rest_files_page, rest_file_stat |-> rest_file_stat,
   upload_file_raw |-> upload_file_raw, download_file |-> download_file,
   rest_tunnels_create |-> rest_tunnels_create, rest_tunnels_update |-> rest_tunnels_update,
   rest_tunnels_delete |-> rest_tunnels_delete, rest_tunnels_start |-> rest_tunnels_start,
   rest_tunnels_stop |-> rest_tunnels_stop,
   rest_backup_settings_update |-> rest_backup_settings_update,
   rest_backup_settings_patch |-> rest_backup_settings_patch,
   rest_backup_run |-> rest_backup_run, rest_backup_record_delete |-> rest_backup_record_delete]

RestOps == DOMAIN Rest
Programs ==
  [op \in RestOps \cup DOMAIN Desktop \cup LateOps |->
     IF op \in RestOps THEN Rest[op] ELSE IF op \in LateOps THEN Late(op) ELSE Desktop[op]]
IsRest(op) == op \in RestOps
Program(op) == Programs[op]

\* where a step that fails continues: the catch around it, or the end of the program
CatcherOf(prog, pc) ==
  LET around == {c \in DOMAIN prog : /\ prog[c][1] = "catch" /\ c > pc
                                     /\ pc >= c - prog[c][2][2]} IN
  IF around = {} THEN Len(prog) + 1 ELSE CHOOSE c \in around : \A d \in around : c <= d

\* what only the caller's input, or a part that is not modelled, decides
Refusals == {"auth", "unlocked", "permit", "valid request"}

\* steps that look at the state and go on or fail
Checks ==
  Refusals \cup {"validBackup", "access", "accessAndExists", "notShutting", "notCancelled", "names",
                 "tunnelExists", "listed", "wanted"}
=============================================================================
