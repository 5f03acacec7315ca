------------------------------ MODULE LaunchEnv ------------------------------
(***************************************************************************)
(* From the settings file to a process: which runtime the launcher starts, *)
(* with which environment and arguments (launcher/src/settings.rs,         *)
(* layout.rs, main.rs), and what the process that came of it makes of the  *)
(* file (be/src/settings.ts).                                              *)
(*                                                                         *)
(* Settings are a function from the ids that are set to their values; a    *)
(* null is an id that is not set.  An option is a pair of an id, which     *)
(* stands for its flag, and a value; order among options does not matter.  *)
(* Options travel as one text, joined with spaces, and are looked for in   *)
(* that text: what an option has in its own is given by constants.         *)
(***************************************************************************)
EXTENDS Naturals, FiniteSets

CONSTANTS
    Params,     \* runtime-params.json: id -> kind, type, appliesTo, engine, appliesAt
    ValuesOf,    \* id -> the values it may hold
    Bundled,    \* the runtimes this install carries, beside its own Node
    OwnVersion, \* the major version of that Node
    Spaced,     \* the values that have a space in them
    WordsOf,    \* pairs of options: the text of the first is a word of the second's
    PartsOf     \* pairs of options: the text of the first is a part of the second's

Runtimes == {"node", "bun", "deno"}
Kinds == {"launcher", "app", "env", "node-option", "runtime-flag"}
ParamTypes == {"int", "string", "bool", "enum", "enum-open"}
AppliesAt == {"restart", "runtime"}
Engines == {"v8", ""}
Param == [kind : Kinds, type : ParamTypes, appliesTo : SUBSET Runtimes, engine : Engines, appliesAt : AppliesAt]
Ids == DOMAIN Params
OwnNode == <<"node", OwnVersion>>   \* the one without which nothing starts
Unset == "unset"

ASSUME ParamsAssumption == \A id \in Ids : Params[id] \in Param

\* A word has no space in it, and is a part.
ASSUME TextAssumption == WordsOf \subseteq PartsOf /\ \A wo \in WordsOf : wo[1][2] \notin Spaced

\* What the rows keep to: the launcher reads three settings of its own, what
\* takes effect at a restart is for the process, a variable is no engine's, and
\* no option is for a runtime that has no place to be given it.
ASSUME RegistryAssumption ==
    /\ \A id \in Ids : Unset \notin ValuesOf[id]
    /\ "jsRuntime" \in Ids => ValuesOf["jsRuntime"] \subseteq Runtimes
    /\ \A id \in Ids : Params[id].appliesAt = "restart" =>
        /\ Params[id].kind # "app"
        /\ Params[id].kind = "launcher" => id \in {"jsRuntime", "netAllowlist", "nodeVersion"}
        /\ Params[id].kind = "env" => Params[id].engine # "v8"
        /\ Params[id].kind = "node-option" =>
            IF Params[id].engine = "v8" THEN "bun" \notin Params[id].appliesTo
                                        ELSE "deno" \notin Params[id].appliesTo

IsSettings(s) == DOMAIN s \subseteq Ids /\ \A id \in DOMAIN s : s[id] \in ValuesOf[id]
ValueOf(s, id) == IF id \in DOMAIN s THEN s[id] ELSE Unset

-----------------------------------------------------------------------------
(* The launcher. *)

\* A switch that is off is absent.
Given(s) == {p \in DOMAIN s : p \in Ids /\ ~(Params[p].type = "bool" /\ s[p] = "false")}

Options(s, ps) == {<<p, s[p]>> : p \in ps}

resolve(s, runtime) ==
    LET for == {p \in Given(s) :
                    /\ Params[p].kind \notin {"launcher", "app"}
                    /\ runtime \in Params[p].appliesTo}
        flags == {p \in for : Params[p].kind = "runtime-flag"}
        v8 == {p \in for \ flags : Params[p].engine = "v8"}
        env == {p \in (for \ flags) \ v8 : Params[p].kind = "env"}
    IN  [env |-> Options(s, env), v8_flags |-> Options(s, v8), runtime_flags |-> Options(s, flags),
         node_options |-> Options(s, ((for \ flags) \ v8) \ env)]

\* What is asked for and not carried is replaced by the Node that always is.
select_runtime(s) ==
    LET runtime == IF "jsRuntime" \in DOMAIN s THEN s["jsRuntime"] ELSE "node"
        wanted == <<runtime, IF runtime = "node" THEN ValueOf(s, "nodeVersion") ELSE Unset>>
        own == wanted = <<"node", Unset>>
        there == ~own /\ wanted \in Bundled
    IN  [kind |-> IF there THEN wanted[1] ELSE OwnNode[1],
         version |-> IF there THEN wanted[2] ELSE OwnNode[2],
         requested |-> wanted,
         unavailable |-> ~own /\ ~there]

\* Mutant: Bun is not given what it would not read in NODE_OPTIONS.
split_options_drops(kind, launch) ==
    LET own == {o \in launch.runtime_flags : o[1] = "denoV8Flags"}
    IN  [env |-> IF kind = "node" THEN launch.node_options \cup launch.v8_flags ELSE {},
         argv |-> launch.runtime_flags \ (IF kind = "deno" THEN own ELSE {}),
         v8 |-> IF kind = "deno" THEN own \cup launch.v8_flags ELSE {}]

\* Bun reads neither NODE_OPTIONS nor a flag of V8's; Deno takes the latter in
\* one argument, to which a setting of its own is merged.
split_options(kind, launch) ==
    LET own == {o \in launch.runtime_flags : o[1] = "denoV8Flags"}
    IN  [env |-> IF kind = "node" THEN launch.node_options \cup launch.v8_flags ELSE {},
         argv |-> CASE kind = "node" -> launch.runtime_flags
                    [] kind = "bun" -> launch.runtime_flags \cup launch.node_options
                    [] kind = "deno" -> launch.runtime_flags \ own,
         v8 |-> IF kind = "deno" THEN own \cup launch.v8_flags ELSE {}]

\* Only Deno takes a list of hosts, and it is what the user added to rn's own.
runtime_argv(kind, s, options) ==
    [flags |-> options.argv, v8 |-> options.v8,
     net |-> IF kind = "deno" THEN {ValueOf(s, "netAllowlist")} \ {Unset} ELSE {}]

build_command(s) ==
    LET selection == select_runtime(s)
        launch == resolve(s, selection.kind)
        options == split_options(selection.kind, launch)
    IN  [runtime |-> selection.kind, version |-> selection.version,
         note |-> selection.unavailable,
         env |-> launch.env, NODE_OPTIONS |-> options.env,
         RN_RUNTIME_FLAGS |-> launch.runtime_flags,
         RN_NET_EXTRA |-> ValueOf(s, "netAllowlist"),
         argv |-> runtime_argv(selection.kind, s, options)]

-----------------------------------------------------------------------------
(* The process that was started so: be/src/settings.ts. *)

\* RN_RUNTIME_FLAGS was joined with spaces, and is taken apart at the spaces.
split(flags) == {o \in flags : o[2] \notin Spaced}
    \cup {wo[1] : wo \in {x \in WordsOf : x[2] \in flags /\ x[2][2] \in Spaced}}

\* String.includes: the text of an option is looked for in the text of them all.
includes(options, want) == \E o \in options : o = want \/ <<want, o>> \in PartsOf

\* NODE_OPTIONS and the arguments the runtime says it was started with.
activeOptions(child) == child.NODE_OPTIONS \cup child.argv.flags \cup child.argv.v8

activeRuntime(child, id) ==
    CASE id = "jsRuntime" -> child.runtime
      [] id = "netAllowlist" -> child.RN_NET_EXTRA
      [] id = "nodeVersion" -> IF child.runtime = "node" THEN child.version ELSE Unset

\* Settings that are saved and not in effect in this process.
pendingRestart(s, child) ==
    {p \in Given(s) :
        /\ Params[p].appliesAt = "restart"
        /\ child.runtime \in Params[p].appliesTo
        /\ CASE Params[p].kind = "launcher" -> activeRuntime(child, p) # s[p]
             [] Params[p].kind = "runtime-flag" -> <<p, s[p]>> \notin split(child.RN_RUNTIME_FLAGS)
             [] Params[p].kind = "env" -> <<p, s[p]>> \notin child.env
             [] OTHER -> ~includes(activeOptions(child), <<p, s[p]>>)}

-----------------------------------------------------------------------------
(* What the two have to agree on. *)

\* The runtime is there, and takes what it is given.
Accepts(child) ==
    /\ \A o \in child.argv.flags : child.runtime \in Params[o[1]].appliesTo
    /\ child.runtime = "deno" => \A o \in child.argv.flags : Params[o[1]].kind = "runtime-flag"
    /\ <<child.runtime, child.version>> \in Bundled \cup {OwnNode}

\* A choice of runtime that the install, or the choice itself, makes void.
Void(s) == select_runtime(s).unavailable
    \/ ("nodeVersion" \in DOMAIN s /\ select_runtime(s).kind # "node")

\* The flags whose echo comes apart at a space: they are in effect, and stay
\* pending.
ComesApart(s, child) ==
    {p \in Given(s) : /\ Params[p].kind = "runtime-flag" /\ Params[p].appliesAt = "restart"
                      /\ child.runtime \in Params[p].appliesTo /\ s[p] \in Spaced}

\* A file the process was started from leaves nothing pending but those, and a
\* runtime is only given what it takes: the launcher's rules for what goes where
\* and the back end's for what to look for are two texts in two languages.
RestartSettlesIt(s) == LET child == build_command(s) IN
    /\ Accepts(child)
    /\ Void(s) \/ pendingRestart(s, child) = ComesApart(s, child)
==============================================================================
