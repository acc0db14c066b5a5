------------------------------- MODULE MCPerf -------------------------------
(* Two clients that query a host, a datastore and a folder while overrides *)
(* come and go.  Times are scaled down: intervals of 2 and 6 seconds, a    *)
(* window of 6, at most 5 samples, 7-bit integers, and a clock from 20 on. *)
EXTENDS PerformanceManager

Host == "host"
Datastore == "ds"
Folder == "folder"

MCEntity == {Host, Datastore}
MCTypeOf == [e \in MCEntity \union {Folder} |->
    CASE e = Host -> "HostSystem" [] e = Datastore -> "Datastore" [] OTHER -> "Folder"]
MCGuid == {""}
MCTarget == [mo : {Host}, guid : MCGuid]
MCInstance == {"", "0"}
MCExpiry == {0, 1}
MCValue == {<<7, 8>>}

MCAvailable == [e \in MCEntity |-> <<<<1, "">>, <<1, "0">>, <<10042, "">>>>]

\* Counter 9 has no recorded points.
Points == 1 :> <<1, 2, 3>> @@ 2 :> <<4, 5, 6>> @@ 9 :> <<>>
MCSampleData == [t \in {"HostSystem", "Datastore"} |-> Points]

Spec1(e, ids, interval, start, end, max) ==
    [entity |-> e, ids |-> ids, interval |-> interval, start |-> start, end |-> end, max |-> max]

All == <<<<1, Star>>>>
One == <<<<1, "0">>>>

MCQuery == {
    <<Spec1(Host, All, -1, NoTime, NoTime, 2)>>,
    <<Spec1(Datastore, All, 2, NoTime, NoTime, 0), Spec1(Host, One, 0, 19, 20, 0)>>,
    <<Spec1(Host, <<<<9, Star>>>>, 2, 0, 20, 0), Spec1(Folder, One, 0, NoTime, NoTime, 0)>>,
    <<Spec1(Host, One, 2, 22, 20, 0)>>,
    <<Spec1(Host, One, 0, NoTime, 1, 1)>>,
    <<Spec1(Host, One, 0, 25, NoTime, 0)>>,
    <<Spec1(Host, One, 2, 10, 80, 0)>>,
    <<Spec1(Host, One, 1, 17, 80, 0)>>,
    <<Spec1(Host, One, -2, 10, 20, 0)>>}
=============================================================================
