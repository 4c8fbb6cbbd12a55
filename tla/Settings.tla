------------------------------ MODULE Settings ------------------------------
(***************************************************************************)
(* The configuration, config.rs: four layers of settings (the arguments,   *)
(* the environment, a TOML file, the defaults), the API key, which has a   *)
(* way of its own, and the rules that reject a configuration.  A setting   *)
(* is a function from the names of the settings to values or `Unset'; a    *)
(* value is a string, since nothing is told apart but which it is and      *)
(* whether the program accepts it.                                         *)
(***************************************************************************)
EXTENDS Naturals, Sequences, TLC

Unset == "unset"
None  == "none"  \* no error

Names == {"rigctld", "wavelog_url", "radio", "power_max", "listen", "ws_listen", "no_ws", "wsjtx",
          "wsjtx_listen", "station_id", "qso_queue_path", "interval", "rig_timeout"}

Empty == [name \in Names |-> Unset]

\* The directory of the queue's file.
DefaultQueuePath(env) ==
    IF env.XDG_STATE_HOME # Unset THEN env.XDG_STATE_HOME
    ELSE IF env.HOME # Unset THEN env.HOME \o "/.local/state"
    ELSE "."

\* What a setting is without being set.
Default(env) == [Empty EXCEPT
    !["rigctld"]      = "127.0.0.1:4532",
    !["power_max"]    = "100",
    !["listen"]       = "127.0.0.1:54321",
    !["ws_listen"]    = "127.0.0.1:54322",
    !["wsjtx_listen"] = "127.0.0.1:2237",
    !["interval"]     = "1s",
    !["rig_timeout"]  = "5s",
    !["no_ws"]        = "off",
    !["wsjtx"]        = "off",
    !["qso_queue_path"] = DefaultQueuePath(env)]

-----------------------------------------------------------------------------
(* The values the program does not accept.                                 *)

AtMostZero == {"0", "-5", "-inf"}
NotFinite  == {"NaN", "inf", "-inf"}
Zero       == {"0s"}
WithOrigin == {"https://wavelog.example", "http://localhost:8086"}

\* The mistake: NaN compares false with everything.
RejectsOnlyNegative(power) == power \in AtMostZero
RejectsPower(power)        == power \in AtMostZero \cup NotFinite

-----------------------------------------------------------------------------
(* rigctld's address, rigctld.rs: the text is known by its pieces between  *)
(* the colons.                                                             *)

Pieces ==
    "127.0.0.1:4532" :> <<"127.0.0.1", "4532">> @@ "[::1]:4532" :> <<"[", "", "1]", "4532">>
    @@ "rig.local:4532" :> <<"rig.local", "4532">> @@ "::1:4532" :> <<"", "", "1", "4532">>
    @@ "rig.local:65536" :> <<"rig.local", "65536">> @@ "rig.local" :> <<"rig.local">>
    @@ ":4532" :> <<"", "4532">>

\* External (std): what parses as a socket address, and as a port.
SocketAddrs == {"127.0.0.1:4532", "[::1]:4532"}
Ports       == {"4532"}

\* The last colon is before the port, and the host has none.
EndpointError(text) ==
    LET pieces == Pieces[text]
        host   == SubSeq(pieces, 1, Len(pieces) - 1)
    IN  CASE text \in SocketAddrs -> None
          [] text \notin SocketAddrs /\ Len(pieces) = 1 -> "MissingPort"
          [] text \notin SocketAddrs /\ host = <<"">>   -> "EmptyHost"
          [] text \notin SocketAddrs /\ Len(host) > 1   -> "AmbiguousIpv6"
          [] text \notin SocketAddrs /\ Len(host) = 1 /\ host # <<"">> ->
                 IF pieces[2] \in Ports THEN None ELSE "InvalidPort"

BadEndpoint(text) == text # Unset /\ EndpointError(text) # None

-----------------------------------------------------------------------------
(* The layers.                                                             *)

\* External (clap): an argument goes before its environment variable.
Cli(args, vars) == [name \in Names |-> IF args[name] # Unset THEN args[name] ELSE vars[name]]

\* A plausible mistake: the file goes before the command line.
FileFirst(cli, toml, default) ==
    IF toml # Unset THEN toml ELSE IF cli # Unset THEN cli ELSE default

Or(cli, toml, default) ==
    IF cli # Unset THEN cli ELSE IF toml # Unset THEN toml ELSE default

\* A flag is on when either of the two turns it on: the command line and the
\* environment cannot turn off what the file turns on.
Flag(cli, toml) == IF "on" \in {cli, toml} THEN "on" ELSE "off"

Flags == {"no_ws", "wsjtx"}

Layered(cli, toml, env) ==
    [name \in Names |->
        IF name \in Flags THEN Flag(cli[name], toml[name])
        ELSE Or(cli[name], toml[name], Default(env)[name])]

\* What is wrong with the settings, in the order the program looks.
Problems(s) ==
    << [found |-> s["wavelog_url"] = Unset,           error |-> "MissingWavelogUrl"],
       [found |-> s["wavelog_url"] \notin WithOrigin, error |-> "InvalidWavelogUrl"],
       [found |-> s["radio"] = Unset,                 error |-> "MissingRadio"],
       [found |-> RejectsPower(s["power_max"]),       error |-> "InvalidPowerMax"],
       [found |-> s["interval"] \in Zero,             error |-> "InvalidInterval"],
       [found |-> s["rig_timeout"] \in Zero,          error |-> "InvalidRigTimeout"] >>

FirstError(problems) ==
    LET found == {i \in DOMAIN problems : problems[i].found}
    IN  IF found = {} THEN None
        ELSE problems[CHOOSE i \in found : \A j \in found : i <= j].error

-----------------------------------------------------------------------------
(* The file and the key.  A file is a record of its kind and, when it is a *)
(* configuration, its settings.                                            *)

\* Where the file is looked for when no path is given.
DefaultConfigPath(env) ==
    IF env.XDG_CONFIG_HOME # Unset THEN env.XDG_CONFIG_HOME
    ELSE IF env.HOME # Unset THEN env.HOME \o "/.config"
    ELSE Unset

\* A missing file is an error when it was asked for.
LoadToml(explicit, env, files) ==
    LET path   == IF explicit # Unset THEN explicit ELSE DefaultConfigPath(env)
        kind   == IF path = Unset THEN "missing" ELSE files[path].kind
        failed(error) == [error |-> error, settings |-> Empty]
    IN  CASE kind = "missing"    -> failed(IF explicit # Unset THEN "ConfigNotFound" ELSE None)
          [] kind = "unreadable" -> failed("ConfigRead")
          [] kind = "not UTF-8"  -> failed("ConfigInvalidUtf8")
          [] kind = "malformed"  -> failed("ConfigParse")
          [] kind = "settings"   ->
                 IF BadEndpoint(files[path].settings["rigctld"]) THEN failed("ConfigParse")
                 ELSE [error |-> None, settings |-> files[path].settings]

\* The key itself, from the environment, unless it is empty or not Unicode;
\* otherwise from a file.
ResolveKey(raw, keyFile) ==
    CASE raw = "key"                                      -> None
      [] raw # "key" /\ keyFile = Unset                   -> "MissingKey"
      [] raw # "key" /\ keyFile \in {"missing", "unreadable"} -> "KeyFileRead"
      [] raw # "key" /\ keyFile = "not UTF-8"             -> "KeyFileInvalidUtf8"
      [] raw # "key" /\ keyFile = "blank"                 -> "EmptyKeyFile"
      [] raw # "key" /\ keyFile = "key"                   -> None

\* The first error there is.
FirstOf(error, next) == IF error # None THEN error ELSE next

\* The command line and its environment are parsed first.
UsageError(cli) == IF BadEndpoint(cli["rigctld"]) THEN "Usage" ELSE None

\* What the daemon is started with.
Load(in) ==
    LET cli  == Cli(in.args, in.vars)
        file == LoadToml(in.config, in.env, in.files)
        s    == Layered(cli, file.settings, in.env)
    IN  [settings |-> s,
         error    |-> FirstOf(UsageError(cli), FirstOf(file.error, FirstOf(
                          ResolveKey(in.raw, in.keyFile), FirstError(Problems(s)))))]

\* The `stations' subcommand needs the URL and the key only.
StationsError(in) ==
    LET cli  == Cli(in.args, in.vars)
        file == LoadToml(in.config, in.env, in.files)
        s    == Layered(cli, file.settings, in.env)
    IN  FirstOf(UsageError(cli), FirstOf(file.error, FirstOf(
            ResolveKey(in.raw, in.keyFile), FirstError(SubSeq(Problems(s), 1, 2)))))

\* It lists the stations of the key, and fails when there are none.
Stations(in, stations) ==
    FirstOf(StationsError(in), IF stations = {} THEN "NoStations" ELSE None)

-----------------------------------------------------------------------------
(* What is asked of what is loaded.                                        *)

\* The highest layer that sets a setting has its way.
LayersRespected(in) ==
    LET loaded == Load(in)
        toml   == LoadToml(in.config, in.env, in.files).settings
    IN  loaded.error = None =>
            \A name \in Names \ Flags :
                LET layers == <<in.args[name], in.vars[name], toml[name], Default(in.env)[name]>>
                    set    == {i \in 1..4 : layers[i] # Unset}
                IN  \A i \in set : (\A j \in set : i <= j) => loaded.settings[name] = layers[i]

\* The powers an input gives are among those told apart here.
Powers == AtMostZero \cup NotFinite \cup {"5", "100", Unset}

KnownPowers(in) ==
    /\ in.args["power_max"] \in Powers /\ in.vars["power_max"] \in Powers
    /\ LoadToml(in.config, in.env, in.files).settings["power_max"] \in Powers

\* A daemon can work with the settings s.
Workable(s) ==
    /\ s["interval"] \notin Zero /\ s["rig_timeout"] \notin Zero
    /\ s["power_max"] \in {"5", "100"}
    /\ s["wavelog_url"] \in WithOrigin /\ s["radio"] # Unset

=============================================================================
