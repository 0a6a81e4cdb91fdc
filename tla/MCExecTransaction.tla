------------------------ MODULE MCExecTransaction ------------------------
(***************************************************************************)
(* Small capabilities in the shapes of the repository's run sheets, and    *)
(* interactive contexts: the console, another user's session, the secure   *)
(* desktop.                                                                *)
(***************************************************************************)
EXTENDS ExecTransaction

MCClassification ==
    [navigate |-> "orientation_only", ok_dialog |-> "commit_point",
     ok_child |-> "potentially_mutating", save |-> "commit_point"]

Call(does)            == [kind |-> "guest", does |-> does,
                          action |-> NoName, boundary |-> NoName]
Gesture(does, action) == [kind |-> "helper", does |-> does,
                          action |-> action, boundary |-> NoName]
Commit(action, name)  == [kind |-> "commit", does |-> "none",
                          action |-> action, boundary |-> name]

CreateAndLaunch == <<Call("create"), Call("none")>>

\* runsheets/gpmc.author_scripts_logon_shutdown.json: removal by GUID.
OwnedSheet == [setup   |-> CreateAndLaunch,
               gesture |-> <<Gesture("none", "navigate"),
                             Gesture("operate", "ok_child"),
                             Gesture("operate", "ok_dialog")>>,
               cleanup |-> <<Call("none"), Call("remove_owned")>>,
               gpo |-> TRUE, gated |-> TRUE, binds |-> TRUE,
               revision |-> 1]

\* runsheets/gpmc.author_scripts_entry.json: removal by name.
NamedSheet == [OwnedSheet EXCEPT
                 !.setup = <<Call("create")>>,
                 !.gesture = <<Gesture("operate", "ok_dialog")>>,
                 !.cleanup = <<Call("remove_by_name")>>,
                 !.gated = FALSE]

\* runsheets/setup.author_migration_table.json: a script, then the commit step.
MigrationSheet == [setup   |-> <<Call("none")>>,
                   gesture |-> <<Call("operate"), Commit("save", "save")>>,
                   cleanup |-> <<Call("none")>>,
                   gpo |-> FALSE, gated |-> FALSE, binds |-> TRUE,
                   revision |-> 1]

\* runsheets/gpmc.observe_imported_firewall_rules.json: no crossing at all.
ObserveSheet == [NamedSheet EXCEPT
                   !.gesture = <<Gesture("none", "navigate")>>,
                   !.cleanup = <<Call("remove_owned")>>]

\* Sheets that break the profile's vocabulary, that name no boundary, that
\* leave an argument of the envelope out, that create nothing, or whose setup
\* goes through the user interface.
UnlistedActionSheet == [MigrationSheet EXCEPT
                          !.gesture = <<Gesture("none", "unlisted")>>]
UnlistedBoundarySheet == [MigrationSheet EXCEPT
                            !.gesture = <<Commit(NoName, "unlisted")>>]
NamelessCommitSheet == [UnlistedBoundarySheet EXCEPT
                          !.gesture = <<Commit(NoName, NoName)>>]
LaterUnlistedSheet == [MigrationSheet EXCEPT
                         !.gesture = <<Gesture("operate", "ok_dialog"),
                                       Commit(NoName, "unlisted")>>]
UnboundSheet == [UnlistedBoundarySheet EXCEPT
                   !.gesture = <<Gesture("operate", "ok_dialog")>>,
                   !.binds = FALSE]
NothingCreatedSheet == [NamedSheet EXCEPT !.setup = <<Call("none")>>]
InteractiveSetupSheet == [NamedSheet EXCEPT
                            !.setup = <<Gesture("create", NoName)>>]

AllSheets == {OwnedSheet, NamedSheet, MigrationSheet, ObserveSheet,
              UnlistedActionSheet, UnlistedBoundarySheet, LaterUnlistedSheet,
              NothingCreatedSheet, UnboundSheet, NamelessCommitSheet,
              InteractiveSetupSheet}

OnlyOwned     == {OwnedSheet}
OnlyNamed     == {NamedSheet}
OnlyLater     == {LaterUnlistedSheet}

Console == [session_id |-> 1, user |-> "operator", desktop |-> "Default",
            foreground |-> "mmc", ui_language |-> "en-US"]

MCContexts == {Console,
               [Console EXCEPT !.session_id = 2, !.user = "someone"],
               [Console EXCEPT !.desktop = "Winlogon"]}      \* secure desktop
MCForegrounds == {"mmc", "helper console"}

=============================================================================
