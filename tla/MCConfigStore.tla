--------------------------- MODULE MCConfigStore ----------------------------
(* ConfigStore for TLC: values good and bad for each key, layers that agree *)
(* and layers that do not.                                                 *)
EXTENDS ConfigStore, TLC

Symmetry == Permutations(Process) \cup Permutations(Inode)

\* What is in a file that has no name and is not open makes no difference.
Files == <<[i \in Inode \ Free |-> content[i]], at, proc, intended, overlapped>>

Input(key, value) == [key |-> key, value |-> value]
MCTyped ==
    {Input("endpoint", "http/"), Input("endpoint", "https"), Input("endpoint", "gpu-01"),
     Input("ca_cert", "ca.pem"), Input("ca_cert", "ca.txt"),
     Input("mode", "Auto"), Input("mode", "yolo")}

MCWritten ==
    {Torn, Json([mode |-> "plan", Endpoint |-> "https", ca_cert |-> Null]),
     Json([Mode |-> "yolo", mode |-> "auto"])}

MCProject ==
    {NoFile, Torn, Json([mode |-> "plan"]), Json([endpoint |-> "https", mode |-> "auto"])}

MCEnv == {<<>>, [mode |-> "Auto"], [mode |-> "yolo"], [endpoint |-> "https"]}
MCFlags == {<<>>, [endpoint |-> "https"]}

\* Once two updates have overlapped, nothing is promised of the file.
Alone == ~overlapped
=============================================================================
