---------------------------- MODULE MCSettingsPage ----------------------------
(***************************************************************************)
(* SettingsPage for TLC: a registry with one parameter of each kind that   *)
(* is treated differently, a value with a space in it, and a number whose  *)
(* text is the beginning of another's.  Two parameters are edited on the   *)
(* page.  And a slice of it: the process is started from whatever the file *)
(* says, and one setting is saved and cleared.                             *)
(***************************************************************************)
EXTENDS SettingsPage

Row(k, t, rts, e, at) == [kind |-> k, type |-> t, appliesTo |-> rts, engine |-> e, appliesAt |-> at]

MCParams == [
    jsRuntime       |-> Row("launcher", "enum", Runtimes, "", "restart"),
    netAllowlist    |-> Row("launcher", "string", Runtimes, "", "restart"),
    nodeVersion     |-> Row("launcher", "enum", Runtimes, "", "restart"),
    maxOldSpaceSize |-> Row("node-option", "int", {"node", "deno"}, "v8", "restart"),
    threadpoolSize  |-> Row("env", "int", {"node"}, "", "restart"),
    bunSmol         |-> Row("runtime-flag", "bool", {"bun"}, "", "restart"),
    denoV8Flags     |-> Row("runtime-flag", "string", {"deno"}, "", "restart"),
    noAddons        |-> Row("node-option", "bool", {"node", "bun"}, "", "restart"),
    timezone        |-> Row("env", "enum-open", Runtimes, "", "restart"),
    defaultTimeoutMs |-> Row("app", "int", Runtimes, "", "runtime")]

MCValuesOf == [
    jsRuntime |-> Runtimes, netAllowlist |-> {"host"}, nodeVersion |-> {"20", "22"},
    maxOldSpaceSize |-> {"512", "5120"}, threadpoolSize |-> {"8"}, bunSmol |-> {"true", "false"},
    denoV8Flags |-> {"one", "one, two"}, noAddons |-> {"true"}, timezone |-> {"UTC"},
    defaultTimeoutMs |-> {Bad}]

MCBundled == {<<"node", "22">>, <<"bun", Unset>>, <<"deno", Unset>>}
MCSpaced == {"one, two"}
MCWordsOf == {}
MCPartsOf == {<<<<"maxOldSpaceSize", "512">>, <<"maxOldSpaceSize", "5120">>>>,
              <<<<"denoV8Flags", "one">>, <<"denoV8Flags", "one, two">>>>}
MCEdited == {"timezone", "defaultTimeoutMs"}

Maybe(id) == MCValuesOf[id] \cup {Unset}
MCLaunchFiles ==
    {Restrict(f, {id \in DOMAIN f : f[id] # Unset}) :
        f \in [jsRuntime : Maybe("jsRuntime"), netAllowlist : Maybe("netAllowlist"),
               nodeVersion : Maybe("nodeVersion"), maxOldSpaceSize : Maybe("maxOldSpaceSize"),
               threadpoolSize : Maybe("threadpoolSize"), bunSmol : Maybe("bunSmol"),
               denoV8Flags : Maybe("denoV8Flags"), noAddons : Maybe("noAddons")]}
MCStoredSettings == {[id \in {"timezone"} |-> "UTC"]}

MCClearable == {"maxOldSpaceSize"}
MCNumber(v) == [id \in {"maxOldSpaceSize"} |-> v]

\* The page is closed: the file is what it is.
LaunchSpec == SettingsInit(MCLaunchFiles, Closed) /\ [][Crashes \/ Boots]_settingsVars

\* Another client saves, and now and then the user here.
SavesSpec == SettingsInit({MCNumber("5120")}, Opened) /\ [][SettingsNext]_settingsVars

==============================================================================
