---------------------------- MODULE MC_Operations ----------------------------
EXTENDS Operations

CONSTANTS s1, s2, p1, p2, p3, restorer, thread

MCVersions == s1 :> 1 @@ s2 :> 2

\* the server runs for both sessions, each is connected, the tunnel is up
MCRunning ==
  [conf |-> [ver |-> MCVersions, tunnel |-> 3, on |-> TRUE, allow |-> {s1, s2}, auto |-> TRUE,
             key |-> TRUE, pin |-> 0, recs |-> {1, 2}],
   conns |-> {[o |-> "desktop", s |-> s1, v |-> 1, id |-> 4],
              [o |-> "automation", s |-> s2, v |-> 2, id |-> 5]},
   fwds |-> {[v |-> 3, c |-> 4, o |-> "desktop", on |-> TRUE]},
   server |-> [open |-> TRUE, inSlot |-> TRUE, cache |-> {s1, s2}]]

\* the application has just started
MCStarting ==
  [conf |-> [ver |-> MCVersions, tunnel |-> 3, on |-> TRUE, allow |-> {s1}, auto |-> TRUE,
             key |-> FALSE, pin |-> 0, recs |-> {1}],
   conns |-> {}, fwds |-> {}, server |-> [open |-> FALSE, inSlot |-> FALSE, cache |-> {}]]

MCWorlds == {MCRunning, MCStarting}

ServerOps ==
  {"api_server_configure_and_start", "spawn_api_server_autostart", "api_server_stop",
   "api_server_status", "api_server_regenerate_key", "shutdown_runtime"}
VaultOps == {"session_update", "session_delete", "settings_proxy_update", "settings_ai_api_update"}
ReplacementOps == {"vault_backup_import", "backup_record_restore"}
TunnelOps ==
  {"tunnel_update", "tunnel_delete", "tunnel_set_enabled", "forward_start_local", "forward_stop",
   "rest_tunnels_start", "rest_tunnels_update"}
BackupOps ==
  {"settings_backup_update", "backup_run_now", "backup_record_delete", "rest_backup_run"}
Both(A, B) == {<<a, b>> : a \in A, b \in B}

\* pairs that share a lock or state, every operation once, and three at a time; but no
\* replacement with what changes the authorised sessions meanwhile, another replacement,
\* settings_ai_api_update or api_server_configure_and_start: restore_api_server_after_config_replacement
\* reads them before it waits for apiOp, so that AuthorizationHolds fails
MCPlans ==
  UNION {Both({a}, ServerOps \cup VaultOps \cup {"rest_exec", "rest_tunnels_start", "api_server_logs"}) :
           a \in ServerOps \ {"shutdown_runtime"}}
  \cup Both({"shutdown_runtime"}, {"ssh_connect", "rest_exec", "backup_run_now", "session_delete"})
  \cup Both(VaultOps, {"session_update", "ssh_connect", "ssh_exec", "rest_connect", "rest_exec_batch",
                       "rest_tunnels_start", "download_file", "tunnel_update"})
  \cup Both(ReplacementOps, {"api_server_stop", "spawn_api_server_autostart", "session_delete",
                             "quick_command_upsert", "ssh_connect", "rest_exec", "tunnel_update",
                             "backup_run_now", "rest_backup_run"})
  \cup Both({"tunnel_delete", "tunnel_update", "rest_tunnels_start"}, TunnelOps)
  \cup Both(BackupOps, BackupOps)
  \cup {<<"rest_sessions", "rest_disconnect">>, <<"rest_latency", "ssh_disconnect">>,
        <<"rest_files", "vault_backup_export">>, <<"rest_files_page", "tunnel_create">>,
        <<"rest_file_stat", "backup_records_clear">>, <<"upload_file_raw", "run_due_auto_backup">>,
        <<"rest_tunnels_create", "rest_tunnels_stop">>,
        <<"rest_tunnels_delete", "rest_backup_settings_update">>,
        <<"rest_backup_settings_patch", "run_due_auto_backup">>,
        <<"auth_check", "quick_command_delete">>, <<"rest_fields", "settings_ignore_update_version">>,
        <<"rest_openapi", "connection_section_state_update">>,
        <<"rest_tunnels_list", "group_create">>, <<"rest_backup_settings_get", "group_update">>,
        <<"rest_backup_records_list", "group_delete">>, <<"session_create", "session_mark_recent">>,
        <<"session_favorite_update", "session_clear_recent">>,
        <<"ssh_trust_host_key", "ssh_connect">>, <<"ssh_trust_host_key", "rest_exec">>,
        <<"ssh_exec_on_connection", "telemetry_start">>, <<"latency_probe", "sftp_commands">>,
        <<"terminal_commands", "forward_list">>, <<"forward_start_remote", "tunnel_delete">>,
        <<"forward_start_dynamic", "forward_stop">>,
        <<"rest_backup_record_delete", "restore_tunnels_after_connect">>}
  \cup {<<"rest_exec", "rest_connect", "session_update">>,
        <<"rest_exec", "settings_ai_api_update", "api_server_status">>,
        <<"rest_tunnels_start", "session_delete", "restore_tunnels_after_connect">>,
        <<"tunnel_update", "session_update", "rest_tunnels_start">>,
        <<"ssh_connect", "session_update", "tunnel_delete">>,
        <<"backup_run_now", "backup_record_delete", "settings_backup_update">>,
        <<"spawn_api_server_autostart", "api_server_stop", "settings_ai_api_update">>}

MCSymmetry == Permutations({p1, p2, p3})
==============================================================================
