------------------------------ MODULE MCDaemon ------------------------------
(***************************************************************************)
(* Two daemons and four ways to start one: without the WSJT-X listener;    *)
(* with it, on a multicast group; beside that one, on other TCP ports; and *)
(* with a queue of its own as well.  And the configurations that are only  *)
(* loaded.                                                                 *)
(***************************************************************************)
EXTENDS Daemon

CONSTANTS one, two

TwoDaemons == {one, two}
Group      == {<<"udp", "224.0.0.1:2237">>}

Home   == [XDG_STATE_HOME |-> Unset, XDG_CONFIG_HOME |-> Unset, HOME |-> "/home/op"]
NoFile == "/home/op/.config" :> [kind |-> "missing"]

Station == [Empty EXCEPT !["wavelog_url"] = "https://wavelog.example", !["radio"] = "FT-710"]
Wsjtx   == [Station EXCEPT !["wsjtx"] = "on", !["wsjtx_listen"] = "224.0.0.1:2237"]
Beside  == [Wsjtx EXCEPT !["listen"] = "127.0.0.1:1", !["no_ws"] = "on"]
Apart   == [Beside EXCEPT !["qso_queue_path"] = "/tmp"]

With(args) == [args |-> args, vars |-> Empty, config |-> Unset, env |-> Home, files |-> NoFile,
               raw |-> "key", keyFile |-> Unset]

FourLines == {With(args) : args \in {Station, Wsjtx, Beside, Apart}}

-----------------------------------------------------------------------------
\* What one of the settings may be at every layer, the others being fine.
Some(name, values) == {[Station EXCEPT ![name] = value] : value \in values \cup {Unset}}

Layers == {Empty} \cup Some("wavelog_url", {"wavelog", "http://localhost:8086"}) \cup Some("radio", {"IC-7300"})
    \cup Some("power_max", AtMostZero \cup NotFinite \cup {"5"}) \cup Some("interval", {"0s", "500ms"})
    \cup Some("rig_timeout", {"0s"}) \cup Some("wsjtx", {"on", "off"}) \cup Some("rigctld", DOMAIN Pieces)
    \cup Some("qso_queue_path", {"/tmp"})

\* An explicit file, or the one of the home directory, or no home.
Explicit   == {"/etc/relay", Unset}
Homes      == {Home, [Home EXCEPT !.HOME = Unset], [Home EXCEPT !.XDG_STATE_HOME = "/state"]}
Kinds      == {"missing", "unreadable", "not UTF-8", "malformed"}
FileKinds  == {[kind |-> kind] : kind \in Kinds}
                  \cup {[kind |-> "settings", settings |-> layer] : layer \in Layers}

Keys     == {<<"key", Unset>>} \cup ({Unset, ""} \X {Unset, "missing", "not UTF-8", "blank", "key"})
FewLayers == {Empty, Station, [Empty EXCEPT !["radio"] = "IC-7300", !["wavelog_url"] = "wavelog"]}

Input(args, variables, config, env, file, key) ==
    [args |-> args, vars |-> variables, config |-> config, env |-> env,
     files |-> "/etc/relay" :> file @@ "/home/op/.config" :> file, raw |-> key[1], keyFile |-> key[2]]

\* Every pair of layers that set something, above a file; and every way to find
\* the file and the key.
ManyInputs ==
    {Input(args, variables, Unset, Home, [kind |-> "settings", settings |-> layer], <<"key", Unset>>) :
        args \in Layers, variables \in FewLayers, layer \in Layers}
    \cup {Input(Empty, variables, Unset, Home, [kind |-> "settings", settings |-> layer], <<"key", Unset>>) :
        variables \in Layers, layer \in Layers}
    \cup {Input(args, Empty, config, env, file, key) :
        args \in FewLayers, config \in Explicit, env \in Homes, file \in FileKinds, key \in Keys}

=============================================================================
