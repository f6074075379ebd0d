------------------------ MODULE KernelInterfaceProofs ------------------------
(* Proofs about KernelInterface, for every number of keys, addresses, ports, *)
(* threads and parts of a request: sockets, tables and peers agree after any *)
(* sequence of commands that succeed, fail half-way or are refused.          *)
EXTENDS KernelInterface, SequenceTheorems, FiniteSetTheorems, TLAPS

-----------------------------------------------------------------------------
(* What the holder of sc_lock may still have to do.                          *)

\* The parts of a request that each end at once.
Parts == {<<"replace">>, <<"port">>, <<"key">>, <<"option">>, <<"peer">>}

Steps ==
    Parts \cup {<<"enable">>, <<"disable">>, <<"close">>, <<"epochWait">>,
                <<"soclose">>, <<"destroyAll">>}
          \cup {<<"open", p>> : p \in Ports \cup {0}}
          \cup ({"aip", "peerEnds"} \X Keys \X BOOLEAN)

\* From place m on only such parts.
PartsFrom(m) == \A i \in m .. Len(todo) : todo[i] \in Parts

\* wg_up, before and after wg_socket_init.
GoingUp ==
    \/ /\ Len(todo) = 2 /\ todo[1] = <<"open", port>> /\ todo[2] = <<"enable">>
       /\ socket = {}
    \/ /\ Len(todo) = 1 /\ todo[1] = <<"enable">>
       /\ socket # {}

\* wg_down, wg_prison_remove and wg_clone_destroy before the sockets are closed,
Closing ==
    \/ Len(todo) = 2 /\ todo[1] = <<"disable">> /\ todo[2] = <<"close">> /\ ~running
    \/ Len(todo) = 1 /\ todo[1] = <<"close">> /\ (leaving = "no" => ~running)
    \/ /\ Len(todo) = 3 /\ todo[1] = <<"close">> /\ todo[2] = <<"epochWait">>
       /\ todo[3] = <<"destroyAll">> /\ leaving = "destroyed"

\* and the end of wg_clone_destroy.
Ending ==
    /\ leaving = "destroyed"
    /\ \/ /\ Len(todo) = 4 /\ todo[1] = <<"epochWait">> /\ todo[2] = <<"soclose">>
          /\ todo[3] = <<"epochWait">> /\ todo[4] = <<"destroyAll">>
       \/ /\ Len(todo) = 3 /\ todo[1] = <<"soclose">> /\ todo[2] = <<"epochWait">>
          /\ todo[3] = <<"destroyAll">> /\ awaited = {}
       \/ Len(todo) = 2 /\ todo[1] = <<"epochWait">> /\ todo[2] = <<"destroyAll">>
       \/ Len(todo) = 1 /\ todo[1] = <<"destroyAll">>

\* Old sockets are being retired, or new ones bound to another port.
Retiring ==
    \/ Len(todo) >= 2 /\ todo[1] = <<"epochWait">> /\ todo[2] = <<"soclose">> /\ PartsFrom(3)
    \/ Len(todo) >= 1 /\ todo[1] = <<"soclose">> /\ PartsFrom(2) /\ awaited = {}
Rebinding ==
    /\ Len(todo) >= 1 /\ PartsFrom(2) /\ running
    /\ \E p \in Ports \cup {0} : todo[1] = <<"open", p>>

\* wg_peer_add is at the peer key.
Adding(key, new) ==
    \E n \in 0 .. (Len(todo) - 1) :
        /\ \A i \in 1 .. n : todo[i] = <<"aip", key, new>>
        /\ todo[n + 1] = <<"peerEnds", key, new>>
        /\ PartsFrom(n + 2)
AddingPeer == \E key \in peers, new \in BOOLEAN : Adding(key, new)

\* Whoever holds sc_lock is at one of these places.
Progress ==
    \/ PartsFrom(1) \/ Rebinding \/ Retiring \/ AddingPeer
    \/ GoingUp \/ Closing \/ Ending

-----------------------------------------------------------------------------
(* The inductive invariant.                                                  *)

SocketsKept ==
    /\ \A t \in Threads : using[t] # "closed" /\ (using[t] = "retired" => t \in awaited)
    /\ \A s \in socket : s.port = port /\ (split \/ s.option = option)
    /\ ~GoingUp /\ ~Closing => (socket # {}) = (running /\ leaving = "no")

TimersKept ==
    /\ GoingUp => running /\ leaving = "no" /\ ~link /\ timers = {}
    /\ leaving = "no" /\ ~GoingUp /\ ~(Len(todo) = 2 /\ todo[1] = <<"disable">>)
          => link = running /\ timers = IF running THEN peers ELSE {}

\* A peer that no request has brought to its end yet is the one that is being added.
ConfiguredKept ==
    \A key \in peers \ configured : Adding(key, TRUE)

IInv ==
    /\ TypeOK /\ todo \in Seq(Steps) /\ Progress
    /\ SocketsKept /\ TablesAgree /\ TimersKept /\ ConfiguredKept

-----------------------------------------------------------------------------
(* The list of what is to be done.                                           *)

PartNames == {"replace", "port", "key", "option", "peer"}
Disabling == Len(todo) = 2 /\ todo[1] = <<"disable">>

\* The steps by their names.
LEMMA StepNames ==
    /\ \A s \in Parts : s[1] \in PartNames /\ s \in Steps
    /\ \A p \in Ports \cup {0} : <<"open", p>> \in Steps
    /\ {<<"enable">>, <<"disable">>, <<"close">>, <<"epochWait">>,
        <<"soclose">>, <<"destroyAll">>} \subseteq Steps
    /\ \A key \in Keys, new \in BOOLEAN :
          <<"aip", key, new>> \in Steps /\ <<"peerEnds", key, new>> \in Steps
<1>1. \A s \in Parts : s[1] \in PartNames
    BY DEF Parts, PartNames
<1>2. \A key \in Keys, new \in BOOLEAN :
          <<"aip", key, new>> \in Steps /\ <<"peerEnds", key, new>> \in Steps
    BY DEF Steps
<1> QED
    BY <1>1, <1>2 DEF Steps

\* The first step tells at which place the holder of sc_lock is.
PlacesNamed ==
    /\ PartsFrom(1) /\ 1 \in 1 .. Len(todo) => todo[1][1] \in PartNames
    /\ Rebinding => todo[1][1] = "open"
    /\ Rebinding /\ Len(todo) = 2 => todo[2][1] \in PartNames
    /\ Retiring => todo[1][1] \in {"epochWait", "soclose"}
    /\ GoingUp => todo[1][1] \in {"open", "enable"}
    /\ GoingUp /\ todo[1][1] = "open" => Len(todo) = 2 /\ todo[2][1] = "enable"
    /\ Closing => todo[1][1] \in {"disable", "close"}
    /\ Ending => todo[1][1] \in {"epochWait", "soclose", "destroyAll"}
    /\ Disabling => todo[1][1] = "disable"
    /\ \A key, new : Adding(key, new) => todo[1][1] \in {"aip", "peerEnds"}

LEMMA PlaceNames == todo \in Seq(Steps) => PlacesNamed
<1> SUFFICES ASSUME todo \in Seq(Steps) PROVE PlacesNamed
    OBVIOUS
<1>0. Len(todo) \in Nat
    BY LenProperties
<1>1. PartsFrom(1) /\ 1 \in 1 .. Len(todo) => todo[1][1] \in PartNames
    BY StepNames DEF PartsFrom
<1>2. Rebinding => todo[1][1] = "open"
    BY DEF Rebinding
<1>3. Rebinding /\ Len(todo) = 2 => todo[2][1] \in PartNames
    <2>1. PartsFrom(2) /\ Len(todo) = 2 => todo[2] \in Parts
        BY <1>0 DEF PartsFrom
    <2> QED
        BY <2>1, StepNames DEF Rebinding
<1>4. Retiring => todo[1][1] \in {"epochWait", "soclose"}
    BY DEF Retiring
<1>5. GoingUp => todo[1][1] \in {"open", "enable"}
    BY DEF GoingUp
<1>6. GoingUp /\ todo[1][1] = "open" => Len(todo) = 2 /\ todo[2][1] = "enable"
    BY DEF GoingUp
<1>7. Closing => todo[1][1] \in {"disable", "close"}
    BY DEF Closing
<1>8. Ending => todo[1][1] \in {"epochWait", "soclose", "destroyAll"}
    BY DEF Ending
<1>9. Disabling => todo[1][1] = "disable"
    BY DEF Disabling
<1>10. ASSUME NEW key, NEW new, Adding(key, new)
       PROVE  todo[1][1] \in {"aip", "peerEnds"}
    <2>1. PICK n \in 0 .. (Len(todo) - 1) :
              /\ \A i \in 1 .. n : todo[i] = <<"aip", key, new>>
              /\ todo[n + 1] = <<"peerEnds", key, new>>
        BY <1>10 DEF Adding
    <2>2. CASE n = 0
        <3>1. todo[1] = <<"peerEnds", key, new>>
            BY <1>0, <2>1, <2>2
        <3> QED
            BY <3>1
    <2>3. CASE n # 0
        <3>1. 1 \in 1 .. n
            BY <1>0, <2>3
        <3>2. todo[1] = <<"aip", key, new>>
            BY <2>1, <3>1
        <3> QED
            BY <3>2
    <2> QED
        BY <2>2, <2>3
<1> QED
    BY <1>1, <1>2, <1>3, <1>4, <1>5, <1>6, <1>7, <1>8, <1>9, <1>10 DEF PlacesNamed

\* So the places exclude each other where the invariant distinguishes them.
PlacesApart ==
    /\ todo = <<>> \/ PartsFrom(1) \/ Rebinding \/ Retiring \/ Ending
          => ~GoingUp /\ ~Closing /\ ~Disabling /\ \A key, new : ~Adding(key, new)
    /\ \A key, new : Adding(key, new) => ~GoingUp /\ ~Closing /\ ~Disabling
    /\ GoingUp => ~Closing /\ ~Disabling /\ \A key, new : ~Adding(key, new)
    /\ Closing => ~GoingUp /\ \A key, new : ~Adding(key, new)

LEMMA Apart == todo \in Seq(Steps) => PlacesNamed /\ PlacesApart
<1> SUFFICES ASSUME todo \in Seq(Steps) PROVE PlacesNamed /\ PlacesApart
    OBVIOUS
<1>0. Len(todo) \in Nat /\ PlacesNamed
    BY LenProperties, PlaceNames
<1>1. GoingUp \/ Closing \/ Disabling \/ (\E key, new : Adding(key, new)) => 1 \in 1 .. Len(todo)
    <2>1. ASSUME NEW key, NEW new, Adding(key, new) PROVE Len(todo) # 0
        <3>1. \E n \in 0 .. (Len(todo) - 1) : TRUE
            BY <2>1 DEF Adding
        <3> QED
            BY <1>0, <3>1
    <2>2. GoingUp \/ Closing \/ Disabling => Len(todo) # 0
        BY DEF GoingUp, Closing, Disabling
    <2> QED
        BY <1>0, <2>1, <2>2
<1>2. todo = <<>> => ~(1 \in 1 .. Len(todo))
    OBVIOUS
<1>3. Rebinding => ~GoingUp
    BY <1>0 DEF PlacesNamed, PartNames
<1>4. PartsFrom(1) \/ Rebinding \/ Retiring \/ Ending
          => ~GoingUp /\ ~Closing /\ ~Disabling /\ \A key, new : ~Adding(key, new)
    BY <1>0, <1>1, <1>3 DEF PlacesNamed, PartNames
<1> QED
    BY <1>0, <1>1, <1>2, <1>4 DEF PlacesNamed, PlacesApart

LEMMA ApartNext == (todo \in Seq(Steps))' => PlacesNamed' /\ PlacesApart'
    BY Apart, PTL

\* What is left to do when a step is done,
LEMMA Done ==
    ASSUME todo \in Seq(Steps), ~Idle, Goes(<<>>)
    PROVE  /\ Len(todo) \in Nat \ {0} /\ Head(todo) = todo[1]
           /\ todo' \in Seq(Steps) /\ Len(todo') = Len(todo) - 1
           /\ \A i \in 1 .. Len(todo') : todo'[i] = todo[i + 1]
<1>1. todo # <<>> /\ Len(todo) \in Nat \ {0} /\ Head(todo) = todo[1]
    BY LenProperties DEF Idle
<1>2. /\ Tail(todo) \in Seq(Steps) /\ Len(Tail(todo)) = Len(todo) - 1
      /\ \A i \in 1 .. Len(Tail(todo)) : Tail(todo)[i] = todo[i + 1]
    BY <1>1, HeadTailProperties
<1>3. todo' = Tail(todo)
    BY <1>2, ConcatEmptySeq DEF Goes
<1> QED
    BY <1>1, <1>2, <1>3

\* when others take its place,
LEMMA Replaced ==
    ASSUME todo \in Seq(Steps), ~Idle, NEW list \in Seq(Steps), Goes(list)
    PROVE  /\ Len(todo) \in Nat \ {0} /\ Len(list) \in Nat
           /\ todo' \in Seq(Steps) /\ Len(todo') = Len(list) + Len(todo) - 1
           /\ \A i \in 1 .. Len(list) : todo'[i] = list[i]
           /\ \A i \in 2 .. Len(todo) : todo'[Len(list) + i - 1] = todo[i]
<1>1. todo # <<>> /\ Len(todo) \in Nat \ {0} /\ Len(list) \in Nat
    BY LenProperties DEF Idle
<1>2. /\ Tail(todo) \in Seq(Steps) /\ Len(Tail(todo)) = Len(todo) - 1
      /\ \A i \in 1 .. Len(Tail(todo)) : Tail(todo)[i] = todo[i + 1]
    BY <1>1, HeadTailProperties
<1>3. todo' = list \o Tail(todo)
    BY DEF Goes
<1>4. /\ todo' \in Seq(Steps) /\ Len(todo') = Len(list) + Len(Tail(todo))
      /\ \A i \in 1 .. Len(list) + Len(Tail(todo)) :
            todo'[i] = IF i <= Len(list) THEN list[i] ELSE Tail(todo)[i - Len(list)]
    BY <1>2, <1>3, ConcatProperties
<1>5. \A i \in 1 .. Len(list) : todo'[i] = list[i]
    BY <1>1, <1>2, <1>4
<1>6. ASSUME NEW i \in 2 .. Len(todo) PROVE todo'[Len(list) + i - 1] = todo[i]
    <2>1. Len(list) + i - 1 \in 1 .. Len(list) + Len(Tail(todo)) /\ ~(Len(list) + i - 1 <= Len(list))
        BY <1>1, <1>2
    <2>2. i - 1 \in 1 .. Len(Tail(todo)) /\ (Len(list) + i - 1) - Len(list) = i - 1
          /\ (i - 1) + 1 = i
        BY <1>1, <1>2
    <2>3. todo'[Len(list) + i - 1] = Tail(todo)[i - 1]
        BY <1>4, <2>1, <2>2
    <2> QED
        BY <1>2, <2>2, <2>3
<1> QED
    BY <1>1, <1>2, <1>4, <1>5, <1>6

\* and when a peer begins.
LEMMA PeerParts ==
    ASSUME NEW key \in Keys, NEW new \in BOOLEAN, NEW n \in Nat
    PROVE  LET list == Copies(<<"aip", key, new>>, n) \o << <<"peerEnds", key, new>> >>
           IN  /\ list \in Seq(Steps) /\ Len(list) = n + 1
               /\ \A i \in 1 .. n : list[i] = <<"aip", key, new>>
               /\ list[n + 1] = <<"peerEnds", key, new>>
<1> DEFINE copies == Copies(<<"aip", key, new>>, n)
           last == << <<"peerEnds", key, new>> >>
<1>1. <<"aip", key, new>> \in Steps /\ <<"peerEnds", key, new>> \in Steps
    BY StepNames
<1>2. copies \in Seq(Steps) /\ Len(copies) = n /\ \A i \in 1 .. n : copies[i] = <<"aip", key, new>>
    BY <1>1 DEF Copies
<1>3. last \in Seq(Steps) /\ Len(last) = 1 /\ last[1] = <<"peerEnds", key, new>>
    BY <1>1
<1> HIDE DEF copies, last
<1>4. /\ copies \o last \in Seq(Steps) /\ Len(copies \o last) = n + 1
      /\ \A i \in 1 .. n + 1 :
            (copies \o last)[i] = IF i <= n THEN copies[i] ELSE last[i - n]
    <2>1. /\ copies \o last \in Seq(Steps) /\ Len(copies \o last) = Len(copies) + Len(last)
          /\ \A i \in 1 .. Len(copies) + Len(last) :
                (copies \o last)[i] = IF i <= Len(copies) THEN copies[i]
                                                        ELSE last[i - Len(copies)]
        BY <1>2, <1>3, ConcatProperties
    <2>2. Len(copies) = n /\ Len(last) = 1
        BY <1>2, <1>3
    <2> QED
        BY <2>1, <2>2
<1>5. \A i \in 1 .. n : (copies \o last)[i] = <<"aip", key, new>>
    BY <1>2, <1>4
<1>6. (copies \o last)[n + 1] = <<"peerEnds", key, new>>
    <2>1. n + 1 \in 1 .. n + 1 /\ ~(n + 1 <= n) /\ (n + 1) - n = 1
        OBVIOUS
    <2> QED
        BY <1>3, <1>4, <2>1
<1> QED
    BY <1>4, <1>5, <1>6 DEF copies, last

\* Where the holder of sc_lock is, by the step it is at.
LEMMA Where ==
    ASSUME todo \in Seq(Steps), Progress, ~Idle
    PROVE  /\ Len(todo) \in Nat \ {0} /\ Head(todo) = todo[1]
           /\ \A name \in PartNames : At(name) => PartsFrom(1)
           /\ At("open") => Rebinding \/ (GoingUp /\ Len(todo) = 2)
           /\ At("enable") => GoingUp /\ Len(todo) = 1
           /\ At("disable") => Closing /\ Disabling
           /\ At("close") => Closing /\ ~Disabling
           /\ At("epochWait") \/ At("soclose") => Retiring \/ Ending
           /\ At("destroyAll") => Ending
           /\ At("aip") \/ At("peerEnds") => AddingPeer
<1>1. Len(todo) \in Nat \ {0} /\ Head(todo) = todo[1] /\ 1 \in 1 .. Len(todo)
    BY LenProperties DEF Idle
<1>2. PlacesNamed /\ PlacesApart
    BY Apart
<1>3. \A name : At(name) => todo[1][1] = name
    BY <1>1 DEF At
<1>4. AddingPeer => todo[1][1] \in {"aip", "peerEnds"}
    BY <1>2 DEF AddingPeer, PlacesNamed
<1>5. /\ todo[1][1] \in PartNames => PartsFrom(1)
      /\ todo[1][1] = "open" => Rebinding \/ GoingUp
      /\ todo[1][1] = "enable" => GoingUp
      /\ todo[1][1] \in {"disable", "close"} => Closing
      /\ todo[1][1] \in {"epochWait", "soclose"} => Retiring \/ Ending
      /\ todo[1][1] = "destroyAll" => Ending
      /\ todo[1][1] \in {"aip", "peerEnds"} => AddingPeer
    BY <1>1, <1>2, <1>4 DEF PlacesNamed, PartNames, Progress
<1>6. GoingUp /\ todo[1][1] = "open" => Len(todo) = 2
    BY <1>2 DEF PlacesNamed
<1>7. GoingUp /\ todo[1][1] = "enable" => Len(todo) = 1
    BY DEF GoingUp
<1>8. Closing /\ todo[1][1] = "disable" => Disabling
    BY DEF Closing, Disabling
<1>9. Disabling => todo[1][1] = "disable"
    BY <1>2 DEF PlacesNamed
<1>10. \A name \in PartNames : At(name) => PartsFrom(1)
    BY <1>3, <1>5
<1>11. /\ At("open") => Rebinding \/ (GoingUp /\ Len(todo) = 2)
       /\ At("enable") => GoingUp /\ Len(todo) = 1
    <2>1. At("open") => todo[1][1] = "open"
        BY <1>3
    <2>2. At("enable") => todo[1][1] = "enable"
        BY <1>3
    <2>3. At("open") => Rebinding \/ GoingUp
        BY <2>1, <1>5
    <2>4. At("enable") => GoingUp
        BY <2>2, <1>5
    <2> QED
        BY <2>1, <2>2, <2>3, <2>4, <1>6, <1>7, Zenon
<1>12. /\ At("disable") => Closing /\ Disabling
       /\ At("close") => Closing /\ ~Disabling
    BY <1>3, <1>5, <1>8, <1>9
<1>13. /\ At("epochWait") \/ At("soclose") => Retiring \/ Ending
       /\ At("destroyAll") => Ending
       /\ At("aip") \/ At("peerEnds") => AddingPeer
    BY <1>3, <1>5
<1> QED
    BY <1>1, <1>10, <1>11, <1>12, <1>13

\* The peer whose part of the request it is at.
LEMMA AtPeer ==
    ASSUME todo \in Seq(Steps), Progress, ~Idle, At("aip") \/ At("peerEnds")
    PROVE  \E key \in peers, new \in BOOLEAN :
              /\ Adding(key, new) /\ Argument = key /\ Head(todo)[2] = key /\ Head(todo)[3] = new
              /\ At("peerEnds") => PartsFrom(2)
              /\ At("aip") /\ Goes(<<>>) => Adding(key, new)'
<1>1. /\ Len(todo) \in Nat \ {0} /\ Head(todo) = todo[1] /\ AddingPeer
    BY Where
<1>2. PICK key \in peers, new \in BOOLEAN : Adding(key, new)
    BY <1>1 DEF AddingPeer
<1>3. PICK n \in 0 .. (Len(todo) - 1) :
          /\ \A i \in 1 .. n : todo[i] = <<"aip", key, new>>
          /\ todo[n + 1] = <<"peerEnds", key, new>>
          /\ PartsFrom(n + 2)
    BY <1>2 DEF Adding
<1>4. n \in Nat /\ (n # 0 => 1 \in 1 .. n)
    BY <1>1, <1>3
<1>5. CASE n = 0
    <2>1. todo[1] = <<"peerEnds", key, new>> /\ PartsFrom(2)
        BY <1>3, <1>5
    <2>2. ~At("aip")
        BY <1>1, <2>1 DEF At
    <2> QED
        BY <1>1, <1>2, <2>1, <2>2 DEF Argument
<1>6. CASE n # 0
    <2>1. todo[1] = <<"aip", key, new>>
        BY <1>3, <1>4, <1>6
    <2>2. ~At("peerEnds")
        BY <1>1, <2>1 DEF At
    <2>3. ASSUME Goes(<<>>) PROVE Adding(key, new)'
        <3>1. /\ Len(todo') \in Nat /\ Len(todo') = Len(todo) - 1
              /\ \A i \in 1 .. Len(todo') : todo'[i] = todo[i + 1]
            BY <1>1, <2>3, Done
        <3>2. n - 1 \in 0 .. (Len(todo') - 1) /\ (n - 1) + 1 = n /\ (n - 1) + 2 = n + 1
            BY <1>1, <1>4, <1>6, <3>1
        <3>3. ASSUME NEW i \in 1 .. n - 1 PROVE todo'[i] = <<"aip", key, new>>
            <4>1. i \in 1 .. Len(todo') /\ i + 1 \in 1 .. n
                BY <1>1, <1>4, <3>1, <3>3
            <4> QED
                BY <1>3, <3>1, <4>1
        <3>4. todo'[n] = <<"peerEnds", key, new>>
            BY <1>1, <1>3, <1>4, <1>6, <3>1
        <3>5. ASSUME NEW i \in n + 1 .. Len(todo') PROVE todo'[i] \in Parts
            <4>1. i \in 1 .. Len(todo') /\ i + 1 \in n + 2 .. Len(todo)
                BY <1>1, <1>4, <3>1
            <4> QED
                BY <1>3, <3>1, <4>1 DEF PartsFrom
        <3> QED
            BY <3>2, <3>3, <3>4, <3>5 DEF Adding, PartsFrom
    <2> QED
        BY <1>1, <1>2, <2>1, <2>2, <2>3 DEF Argument
<1> QED
    BY <1>5, <1>6

-----------------------------------------------------------------------------
(* Types.                                                                    *)

\* wg_socket_bind opens some family at a port of its own.
LEMMA BoundSound ==
    ASSUME NEW requested \in Ports \cup {0}, NEW b \in Bound(requested)
    PROVE  b.port \in Ports /\ b.families \subseteq Families /\ b.families # {}
<1>1. PICK f \in (SUBSET Families) \ {{}}, p \in IF requested = 0 THEN Ports ELSE {requested} :
          b = [families |-> f, port |-> p]
    BY DEF Bound
<1>2. p \in Ports
    BY <1>1
<1> QED
    BY <1>1, <1>2

LEMMA AtOpen ==
    ASSUME TypeOK, todo \in Seq(Steps), Progress, ~Idle, At("open")
    PROVE  Argument \in Ports \cup {0}
<1>1. Head(todo) = todo[1] /\ (Rebinding \/ (GoingUp /\ Len(todo) = 2))
    BY Where
<1>2. \E p \in Ports \cup {0} : todo[1] = <<"open", p>>
    <2>1. port \in Ports \cup {0}
        BY DEF TypeOK
    <2> QED
        BY <1>1, <2>1 DEF Rebinding, GoingUp
<1> QED
    BY <1>1, <1>2 DEF Argument

LEMMA DestroyedTypes ==
    ASSUME TypeOK, NEW gone, Destroyed(gone)
    PROVE  /\ peers' \subseteq Keys /\ timers' \subseteq Keys /\ configured' \subseteq Keys
           /\ owner' \in [Addresses -> KeyOrNone]
    BY DEF TypeOK, Destroyed, Released, KeyOrNone

\* wg_clone_create makes a well-formed interface, and every step keeps it so.
LEMMA TypeInit == Init => TypeOK
    BY DEF Init, TypeOK, KeyOrNone

LEMMA TypeStep ==
    ASSUME TypeOK, todo \in Seq(Steps), Progress, Next
    PROVE  TypeOK'
<1>1. CASE Up \/ Down \/ Set \/ SetFib \/ PrisonRemove \/ CloneDestroy
    BY <1>1 DEF TypeOK, Up, Down, Set, SetFib, PrisonRemove, CloneDestroy, ifVars, socketVars,
                peerVars, threadVars
<1>2. CASE Open
    <2>1. PICK b \in Bound(Argument) :
              /\ port' = b.port
              /\ Replace({[family |-> f, port |-> b.port, option |-> option] : f \in b.families})
        BY <1>2 DEF Open
    <2>2. b.port \in Ports /\ b.families \subseteq Families
        BY <1>2, <2>1, AtOpen, BoundSound DEF Open, At
    <2>3. socket' \subseteq Sockets
        BY <2>1, <2>2 DEF TypeOK, Replace, Sockets
    <2>4. /\ using' \in [Threads -> {"none", "current", "retired", "closed"}]
          /\ awaited' \subseteq Threads /\ split' \in BOOLEAN
        BY <2>1 DEF TypeOK, Replace
    <2> QED
        BY <1>2, <2>1, <2>2, <2>3, <2>4 DEF TypeOK, Open, ifVars, peerVars
<1>3. CASE Close
    <2>1. /\ using' \in [Threads -> {"none", "current", "retired", "closed"}]
          /\ awaited' \subseteq Threads /\ socket' = {} /\ split' \in BOOLEAN
        BY <1>3 DEF TypeOK, Close, Replace
    <2> QED
        BY <1>3, <2>1 DEF TypeOK, Close, ifVars, peerVars
<1>4. CASE OpenFails \/ EpochWait \/ Soclose \/ Skip \/ Refuse
    BY <1>4 DEF TypeOK, OpenFails, EpochWait, Soclose, Skip, Refuse, ifVars, socketVars,
                peerVars, threadVars
<1>5. CASE Option
    <2>1. PICK o \in Options : option' = o /\ socket' = {[s EXCEPT !.option = o] : s \in socket}
        BY <1>5 DEF Option
    <2>2. socket' \subseteq Sockets
        BY <2>1 DEF TypeOK, Sockets
    <2> QED
        BY <1>5, <2>1, <2>2 DEF TypeOK, Option, ifVars, peerVars, threadVars
<1>15. CASE OptionSplits
    <2>1. PICK o \in Options, taken \in SUBSET socket :
              socket' = (socket \ taken) \cup {[s EXCEPT !.option = o] : s \in taken}
        BY <1>15 DEF OptionSplits
    <2>2. socket' \subseteq Sockets
        BY <2>1 DEF TypeOK, Sockets
    <2> QED
        BY <1>15, <2>2 DEF TypeOK, OptionSplits, ifVars, peerVars, threadVars
<1>6. CASE Enable \/ Disable
    BY <1>6 DEF TypeOK, Enable, Disable, socketVars, threadVars
<1>7. CASE DestroyAll
    BY <1>7, DestroyedTypes DEF TypeOK, DestroyAll, ifVars, socketVars, threadVars
<1>8. CASE Port
    BY <1>8 DEF TypeOK, Port, NewPort, ifVars, peerVars, threadVars
<1>9. CASE Key
    BY <1>9, DestroyedTypes DEF TypeOK, Key, ifVars, socketVars, threadVars
<1>10. CASE PeerAdd
    <2>1. PICK key \in Keys :
              \/ key = private /\ UNCHANGED peerVars
              \/ Destroyed({key} \cap peers) /\ UNCHANGED <<private, checker>>
              \/ /\ \E a \in {owner, Released({key})} : owner' = a
                 /\ UNCHANGED <<private, checker, peers, timers, configured>>
              \/ /\ peers' = peers \cup {key} /\ timers' = timers \cup CreatedEnabled(key)
                 /\ UNCHANGED <<private, checker, owner, configured>>
        BY <1>10 DEF PeerAdd
    <2>2. Released({key}) \in [Addresses -> KeyOrNone] /\ CreatedEnabled(key) \subseteq Keys
        BY DEF TypeOK, Released, KeyOrNone, CreatedEnabled
    <2>3. /\ private' \in KeyOrNone /\ checker' \in KeyOrNone
          /\ peers' \subseteq Keys /\ timers' \subseteq Keys /\ configured' \subseteq Keys
          /\ owner' \in [Addresses -> KeyOrNone]
        BY <2>1, <2>2, DestroyedTypes DEF TypeOK, peerVars
    <2> QED
        BY <1>10, <2>3 DEF TypeOK, PeerAdd, ifVars, socketVars, threadVars
<1>11. CASE AllowedIp
    <2>1. Argument \in Keys
        BY <1>11, AtPeer DEF AllowedIp, TypeOK, At
    <2>2. owner' \in [Addresses -> KeyOrNone]
        BY <1>11, <2>1 DEF AllowedIp, TypeOK, KeyOrNone
    <2> QED
        BY <1>11, <2>2 DEF AllowedIp, TypeOK, ifVars, socketVars, threadVars
<1>12. CASE PeerEnds
    <2>1. Argument \in Keys
        BY <1>12, AtPeer DEF PeerEnds, TypeOK, At
    <2> QED
        BY <1>12, <2>1 DEF PeerEnds, TypeOK, ifVars, socketVars, threadVars
<1>13. CASE PeerFails
    BY <1>13, DestroyedTypes DEF PeerFails, TypeOK, ifVars, socketVars, threadVars
<1>14. CASE \E t \in Threads : Load(t) \/ Sosend(t)
    BY <1>14 DEF TypeOK, Load, Sosend, Exits, ifVars, socketVars, peerVars
<1> QED
    BY <1>1, <1>2, <1>3, <1>4, <1>5, <1>6, <1>7, <1>8, <1>9, <1>10, <1>11, <1>12, <1>13, <1>14,
       <1>15 DEF Next, ControlStep

-----------------------------------------------------------------------------
(* The invariant where neither wg_up nor wg_down is under way.               *)

SocketUse ==
    /\ \A t \in Threads : using[t] # "closed" /\ (using[t] = "retired" => t \in awaited)
    /\ \A s \in socket : s.port = port /\ (split \/ s.option = option)
Served ==
    /\ (socket # {}) = (running /\ leaving = "no")
    /\ leaving = "no" => link = running /\ timers = IF running THEN peers ELSE {}
Settled == PartsFrom(1) \/ Rebinding \/ Retiring \/ Ending

LEMMA Settles ==
    TypeOK /\ todo \in Seq(Steps) /\ Settled /\ SocketUse /\ TablesAgree /\ Served
        /\ peers \subseteq configured => IInv
BY Apart DEF Settled, SocketUse, Served, IInv, Progress, SocketsKept, TimersKept,
             ConfiguredKept, PlacesApart, Disabling
LEMMA SettlesNext ==
    TypeOK' /\ (todo \in Seq(Steps))' /\ Settled' /\ SocketUse' /\ TablesAgree' /\ Served'
        /\ (peers \subseteq configured)' => IInv'
BY Settles, PTL

LEMMA InSettled ==
    ASSUME IInv, Settled
    PROVE  /\ SocketUse /\ TablesAgree /\ Served /\ peers \subseteq configured
BY Apart DEF Settled, SocketUse, Served, IInv, Progress, SocketsKept, TimersKept,
             ConfiguredKept, PlacesApart, Disabling

LEMMA Adds ==
    TypeOK /\ todo \in Seq(Steps) /\ AddingPeer /\ SocketUse /\ TablesAgree /\ Served
        /\ ConfiguredKept => IInv
<1>1. todo \in Seq(Steps) /\ AddingPeer => ~GoingUp /\ ~Closing /\ ~Disabling
    BY Apart DEF AddingPeer, PlacesApart
<1> QED
    BY <1>1 DEF SocketUse, Served, IInv, Progress, SocketsKept, TimersKept
LEMMA AddsNext ==
    TypeOK' /\ (todo \in Seq(Steps))' /\ AddingPeer' /\ SocketUse' /\ TablesAgree' /\ Served'
        /\ ConfiguredKept' => IInv'
BY Adds, PTL

LEMMA InAdding ==
    ASSUME IInv, AddingPeer
    PROVE  /\ SocketUse /\ TablesAgree /\ Served
<1>1. PlacesApart
    BY Apart DEF IInv
<1>2. ~GoingUp /\ ~Closing /\ ~Disabling
    BY <1>1 DEF AddingPeer, PlacesApart
<1> QED
    BY <1>2 DEF SocketUse, Served, IInv, SocketsKept, TimersKept, Disabling

\* The step at the head names the peer.
LEMMA AddingOne ==
    ASSUME todo \in Seq(Steps), NEW key, NEW new, Adding(key, new)
    PROVE  todo[1][2] = key /\ todo[1][3] = new
<1>1. PICK n \in 0 .. (Len(todo) - 1) :
          /\ \A i \in 1 .. n : todo[i] = <<"aip", key, new>>
          /\ todo[n + 1] = <<"peerEnds", key, new>>
    BY DEF Adding
<1>2. n \in Nat /\ (n # 0 => 1 \in 1 .. n)
    BY <1>1, LenProperties
<1>3. todo[1] = <<"aip", key, new>> \/ todo[1] = <<"peerEnds", key, new>>
    BY <1>1, <1>2
<1> QED
    BY <1>3

\* The parts that follow the first.
LEMMA PartDone ==
    ASSUME todo \in Seq(Steps), ~Idle, PartsFrom(2), Goes(<<>>)
    PROVE  todo' \in Seq(Steps) /\ PartsFrom(1)'
<1>1. /\ Len(todo) \in Nat \ {0} /\ todo' \in Seq(Steps) /\ Len(todo') = Len(todo) - 1
      /\ \A i \in 1 .. Len(todo') : todo'[i] = todo[i + 1]
    BY Done
<1>2. ASSUME NEW i \in 1 .. Len(todo') PROVE todo'[i] \in Parts
    <2>1. i + 1 \in 2 .. Len(todo)
        BY <1>1
    <2> QED
        BY <1>1, <2>1 DEF PartsFrom
<1> QED
    BY <1>1, <1>2 DEF PartsFrom

LEMMA NothingLeft ==
    ASSUME todo' = <<>>
    PROVE  todo' \in Seq(Steps) /\ PartsFrom(1)' /\ Settled'
<1>1. Len(todo') = 0
    OBVIOUS
<1> QED
    BY <1>1 DEF PartsFrom, Settled

LEMMA FromFirst == Len(todo) \in Nat /\ PartsFrom(1) => PartsFrom(2)
BY DEF PartsFrom

-----------------------------------------------------------------------------
(* The commands begin.                                                       *)

LEMMA InitInvariant == Init => IInv
<1> SUFFICES ASSUME Init PROVE IInv
    OBVIOUS
<1>1. Len(todo) = 0 /\ todo \in Seq(Steps)
    BY DEF Init
<1>2. Settled
    BY <1>1 DEF Settled, PartsFrom
<1> QED
    BY <1>1, <1>2, TypeInit, Settles DEF Init, SocketUse, Served, TablesAgree

\* Nobody holds sc_lock.
LEMMA InIdle ==
    ASSUME IInv, Idle
    PROVE  Settled /\ SocketUse /\ TablesAgree /\ Served /\ peers \subseteq configured
<1>1. Len(todo) = 0
    BY DEF Idle
<1>2. Settled
    BY <1>1 DEF Settled, PartsFrom
<1> QED
    BY <1>2, InSettled

\* The invariant while the interface goes up or down.
LEMMA GoesUpNext ==
    ASSUME TypeOK', todo' \in Seq(Steps), GoingUp', SocketUse', TablesAgree',
           peers' \subseteq configured', running', leaving' = "no", ~link', timers' = {}
    PROVE  IInv'
BY ApartNext DEF IInv, Progress, SocketUse, SocketsKept, TimersKept, ConfiguredKept,
                 PlacesApart, Disabling

LEMMA ClosesNext ==
    ASSUME TypeOK', todo' \in Seq(Steps), Closing', SocketUse', TablesAgree',
           peers' \subseteq configured',
           leaving' = "no" /\ ~Disabling' =>
               link' = running' /\ timers' = IF running' THEN peers' ELSE {}
    PROVE  IInv'
BY ApartNext DEF IInv, Progress, SocketUse, SocketsKept, TimersKept, ConfiguredKept,
                 PlacesApart, Disabling

LEMMA UpStep == IInv /\ Up => IInv'
<1> SUFFICES ASSUME IInv, Up PROVE IInv'
    OBVIOUS
<1>1. /\ todo \in Seq(Steps) /\ Progress /\ TypeOK /\ Idle
      /\ SocketUse /\ TablesAgree /\ Served /\ peers \subseteq configured
    BY InIdle DEF IInv, Up, Begins
<1>2. /\ todo' = << <<"open", port>>, <<"enable">> >> /\ running' /\ ~running
      /\ leaving = "no" /\ UNCHANGED <<link, leaving, socketVars, peerVars, threadVars>>
    BY DEF Up, Begins
<1>3. TypeOK'
    BY <1>1, TypeStep DEF Next
<1>4. <<"open", port>> \in Steps /\ <<"enable">> \in Steps
    BY <1>1, StepNames DEF TypeOK
<1>5. todo' \in Seq(Steps) /\ Len(todo') = 2
      /\ todo'[1] = <<"open", port>> /\ todo'[2] = <<"enable">>
    BY <1>2, <1>4
<1>6. socket = {} /\ ~link /\ timers = {}
    BY <1>1, <1>2 DEF Served, TypeOK
<1>7. GoingUp'
    BY <1>2, <1>5, <1>6 DEF GoingUp, socketVars
<1>8. SocketUse' /\ TablesAgree' /\ peers' \subseteq configured' /\ ~link' /\ timers' = {}
    BY <1>1, <1>2, <1>6 DEF SocketUse, TablesAgree, socketVars, peerVars, threadVars
<1> QED
    BY <1>2, <1>3, <1>5, <1>7, <1>8, GoesUpNext

LEMMA DownStep == IInv /\ Down => IInv'
<1> SUFFICES ASSUME IInv, Down PROVE IInv'
    OBVIOUS
<1>1. /\ todo \in Seq(Steps) /\ Progress /\ TypeOK /\ Idle
      /\ SocketUse /\ TablesAgree /\ Served /\ peers \subseteq configured
    BY InIdle DEF IInv, Down, Begins
<1>2. /\ todo' = << <<"disable">>, <<"close">> >> /\ ~running'
      /\ UNCHANGED <<link, leaving, socketVars, peerVars, threadVars>>
    BY DEF Down, Begins
<1>3. TypeOK'
    BY <1>1, TypeStep DEF Next
<1>4. <<"disable">> \in Steps /\ <<"close">> \in Steps
    BY StepNames
<1>5. todo' \in Seq(Steps) /\ Len(todo') = 2
      /\ todo'[1] = <<"disable">> /\ todo'[2] = <<"close">>
    BY <1>2, <1>4
<1>6. Closing' /\ Disabling'
    BY <1>2, <1>5 DEF Closing, Disabling
<1>7. SocketUse' /\ TablesAgree' /\ peers' \subseteq configured'
    BY <1>1, <1>2 DEF SocketUse, TablesAgree, socketVars, peerVars, threadVars
<1> QED
    BY <1>3, <1>5, <1>6, <1>7, ClosesNext

LEMMA SetStep == IInv /\ (Set \/ SetFib) => IInv'
<1> SUFFICES ASSUME IInv, Set \/ SetFib PROVE IInv'
    OBVIOUS
<1>1. /\ todo \in Seq(Steps) /\ Progress /\ TypeOK /\ Idle
      /\ SocketUse /\ TablesAgree /\ Served /\ peers \subseteq configured
    BY InIdle DEF IInv, Set, SetFib, Begins
<1>2. UNCHANGED <<ifVars, socketVars, peerVars, threadVars>>
    BY DEF Set, SetFib
<1>3. TypeOK'
    BY <1>1, TypeStep DEF Next
<1>4. todo' \in Seq(Parts)
    <2>1. CASE SetFib
        BY <2>1 DEF SetFib, Begins, Parts
    <2>2. CASE Set
        <3>1. PICK items \in 0 .. MaxItems :
                  todo' = << <<"replace">>, <<"port">>, <<"key">>, <<"option">> >>
                              \o Copies(<<"peer">>, items)
            BY <2>2 DEF Set, Begins
        <3>2. << <<"replace">>, <<"port">>, <<"key">>, <<"option">> >> \in Seq(Parts)
            BY DEF Parts
        <3>3. Copies(<<"peer">>, items) \in Seq(Parts)
            BY <3>1, InterfaceAssumption DEF Parts, Copies
        <3> QED
            BY <3>1, <3>2, <3>3, ConcatProperties
    <2> QED
        BY <2>1, <2>2
<1>5. PartsFrom(1)'
    BY <1>4, ElementOfSeq DEF PartsFrom
<1>6. todo' \in Seq(Steps)
    <2>1. Parts \subseteq Steps
        BY DEF Steps
    <2> QED
        BY <1>4, <2>1
<1>7. SocketUse' /\ TablesAgree' /\ Served' /\ peers' \subseteq configured'
    BY <1>1, <1>2 DEF SocketUse, TablesAgree, Served, ifVars, socketVars, peerVars, threadVars
<1> QED
    BY <1>3, <1>5, <1>6, <1>7, SettlesNext DEF Settled

LEMMA LeaveStep == IInv /\ (PrisonRemove \/ CloneDestroy) => IInv'
<1> SUFFICES ASSUME IInv, PrisonRemove \/ CloneDestroy PROVE IInv'
    OBVIOUS
<1>1. /\ todo \in Seq(Steps) /\ Progress /\ TypeOK /\ Idle
      /\ SocketUse /\ TablesAgree /\ Served /\ peers \subseteq configured
    BY InIdle DEF IInv, PrisonRemove, CloneDestroy, Begins
<1>2. leaving' # "no" /\ UNCHANGED <<running, socketVars, peerVars, threadVars>>
    BY DEF PrisonRemove, CloneDestroy
<1>3. TypeOK'
    BY <1>1, TypeStep DEF Next
<1>4. <<"close">> \in Steps /\ <<"epochWait">> \in Steps /\ <<"destroyAll">> \in Steps
    BY StepNames
<1>5. todo' \in Seq(Steps) /\ Closing'
    <2>1. CASE PrisonRemove
        <3>1. todo' = << <<"close">> >>
            BY <2>1 DEF PrisonRemove, Begins
        <3>2. todo' \in Seq(Steps) /\ Len(todo') = 1 /\ todo'[1] = <<"close">>
            BY <1>4, <3>1
        <3> QED
            BY <1>2, <3>2 DEF Closing
    <2>2. CASE CloneDestroy
        <3>1. todo' = << <<"close">>, <<"epochWait">>, <<"destroyAll">> >> /\ leaving' = "destroyed"
            BY <2>2 DEF CloneDestroy, Begins
        <3>2. /\ todo' \in Seq(Steps) /\ Len(todo') = 3 /\ todo'[1] = <<"close">>
              /\ todo'[2] = <<"epochWait">> /\ todo'[3] = <<"destroyAll">>
            BY <1>4, <3>1
        <3> QED
            BY <3>1, <3>2 DEF Closing
    <2> QED
        BY <2>1, <2>2
<1>6. SocketUse' /\ TablesAgree' /\ peers' \subseteq configured'
    BY <1>1, <1>2 DEF SocketUse, TablesAgree, socketVars, peerVars, threadVars
<1> QED
    BY <1>2, <1>3, <1>5, <1>6, ClosesNext

-----------------------------------------------------------------------------
(* The steps of the sockets.                                                 *)

\* What IInv says of whoever holds sc_lock.
LEMMA Holder ==
    ASSUME IInv, ~Idle, Next
    PROVE  /\ todo \in Seq(Steps) /\ Progress /\ TypeOK /\ TypeOK' /\ TablesAgree /\ SocketUse
           /\ Len(todo) \in Nat \ {0}
    BY TypeStep, Where DEF IInv, SocketsKept, SocketUse

\* wg_socket_set: threads have the old sockets until the epoch ends.
LEMMA ReplaceUse ==
    ASSUME SocketUse, NEW new, Replace(new), \A s \in new : s.port = port' /\ (split' \/ s.option = option')
    PROVE  SocketUse'
<1>1. ASSUME NEW t \in Threads
      PROVE  using'[t] # "closed" /\ (using'[t] = "retired" => t \in awaited')
    BY DEF SocketUse, Replace
<1> QED
    BY <1>1 DEF SocketUse, Replace

\* The old sockets, when there are some, are to be closed first.
LEMMA RetireFirst ==
    ASSUME todo \in Seq(Steps), ~Idle, Goes(Retired)
    PROVE  /\ Len(todo) \in Nat \ {0} /\ todo' \in Seq(Steps) /\ Len(todo') = Len(todo) + 1
           /\ todo'[1] = <<"epochWait">> /\ todo'[2] = <<"soclose">>
           /\ \A i \in 3 .. Len(todo') : todo'[i] = todo[i - 1]
<1>1. /\ Retired \in Seq(Steps) /\ Len(Retired) = 2
      /\ Retired[1] = <<"epochWait">> /\ Retired[2] = <<"soclose">>
    BY StepNames DEF Retired
<1>2. /\ Len(todo) \in Nat \ {0}
      /\ todo' \in Seq(Steps) /\ Len(todo') = Len(Retired) + Len(todo) - 1
      /\ \A i \in 1 .. Len(Retired) : todo'[i] = Retired[i]
      /\ \A i \in 2 .. Len(todo) : todo'[Len(Retired) + i - 1] = todo[i]
    BY <1>1, Replaced
<1>3. ASSUME NEW i \in 3 .. Len(todo') PROVE todo'[i] = todo[i - 1]
    <2>1. i - 1 \in 2 .. Len(todo) /\ 2 + (i - 1) - 1 = i
        BY <1>1, <1>2
    <2> QED
        BY <1>1, <1>2, <2>1
<1> QED
    BY <1>1, <1>2, <1>3

LEMMA OpenStep == IInv /\ Open => IInv'
<1> SUFFICES ASSUME IInv, Open PROVE IInv'
    OBVIOUS
<1>0. ~Idle /\ At("open") /\ leaving = "no" /\ UNCHANGED <<ifVars, option, peerVars>>
    BY DEF Open, At
<1>1. /\ todo \in Seq(Steps) /\ Progress /\ TypeOK /\ TypeOK' /\ TablesAgree /\ SocketUse
      /\ Len(todo) \in Nat \ {0}
    BY <1>0, Holder DEF Next, ControlStep
<1>2. PICK b \in Bound(Argument) :
          /\ port' = b.port
          /\ Replace({[family |-> f, port |-> b.port, option |-> option] : f \in b.families})
    BY DEF Open
<1> DEFINE new == {[family |-> f, port |-> b.port, option |-> option] : f \in b.families}
<1>3. b.families # {}
    BY <1>0, <1>1, <1>2, AtOpen, BoundSound
<1>4. new # {} /\ \A s \in new : s.port = port' /\ (split' \/ s.option = option')
    <2>1. PICK f : f \in b.families
        BY <1>3
    <2>2. [family |-> f, port |-> b.port, option |-> option] \in new
        BY <2>1
    <2>3. ASSUME NEW s \in new PROVE s.port = b.port /\ s.option = option
        OBVIOUS
    <2> QED
        BY <1>0, <1>2, <2>2, <2>3
<1> HIDE DEF new
<1>5. SocketUse' /\ socket' # {}
    BY <1>1, <1>2, <1>4, ReplaceUse DEF Replace, new
<1>6. TablesAgree'
    BY <1>0, <1>1 DEF TablesAgree, peerVars
<1>7. CASE Rebinding
    <2>1. Served /\ running /\ peers \subseteq configured /\ PartsFrom(2)
        BY <1>7, InSettled DEF Settled, Rebinding
    <2>2. socket # {} /\ Goes(Retired)
        BY <1>0, <1>2, <2>1 DEF Served, Replace
    <2>3. /\ todo' \in Seq(Steps) /\ Len(todo') = Len(todo) + 1
          /\ todo'[1] = <<"epochWait">> /\ todo'[2] = <<"soclose">>
          /\ \A i \in 3 .. Len(todo') : todo'[i] = todo[i - 1]
        BY <1>0, <1>1, <2>2, RetireFirst
    <2>4. ASSUME NEW i \in 3 .. Len(todo') PROVE todo'[i] \in Parts
        <3>1. i - 1 \in 2 .. Len(todo)
            BY <1>1, <2>3
        <3> QED
            BY <2>1, <2>3, <3>1 DEF PartsFrom
    <2>5. Len(todo') >= 2
        BY <1>1, <2>3
    <2>6. Retiring'
        BY <2>3, <2>4, <2>5 DEF Retiring, PartsFrom
    <2>7. Served' /\ peers' \subseteq configured'
        BY <1>0, <1>5, <2>1 DEF Served, ifVars, peerVars
    <2> QED
        BY <1>1, <1>5, <1>6, <2>3, <2>6, <2>7, SettlesNext DEF Settled
<1>8. CASE GoingUp /\ Len(todo) = 2
    <2>1. socket = {} /\ todo[2] = <<"enable">>
        BY <1>8 DEF GoingUp
    <2>2. Goes(<<>>)
        BY <1>2, <2>1 DEF Replace
    <2>3. todo' \in Seq(Steps) /\ Len(todo') = 1 /\ todo'[1] = <<"enable">>
        <3>1. /\ todo' \in Seq(Steps) /\ Len(todo') = Len(todo) - 1
              /\ \A i \in 1 .. Len(todo') : todo'[i] = todo[i + 1]
            BY <1>0, <1>1, <2>2, Done
        <3>2. 1 \in 1 .. Len(todo') /\ 1 + 1 = 2
            BY <1>8, <3>1
        <3> QED
            BY <1>8, <2>1, <3>1, <3>2
    <2>4. GoingUp'
        BY <1>5, <2>3 DEF GoingUp
    <2>5. running /\ ~link /\ timers = {} /\ peers \subseteq configured
        BY <1>1, <1>8, Apart DEF IInv, TimersKept, ConfiguredKept, PlacesApart
    <2>6. peers' \subseteq configured' /\ running' /\ leaving' = "no" /\ ~link' /\ timers' = {}
        BY <1>0, <2>5 DEF ifVars, peerVars
    <2> QED
        BY <1>1, <1>5, <1>6, <2>3, <2>4, <2>6, GoesUpNext
<1>9. Rebinding \/ (GoingUp /\ Len(todo) = 2)
    BY <1>0, <1>1, Where
<1> QED
    BY <1>7, <1>8, <1>9

LEMMA OpenFailsStep == IInv /\ OpenFails => IInv'
<1> SUFFICES ASSUME IInv, OpenFails PROVE IInv'
    OBVIOUS
<1>0. /\ ~Idle /\ At("open") /\ todo' = <<>>
      /\ UNCHANGED <<link, leaving, socketVars, peerVars, threadVars>>
    BY DEF OpenFails, At
<1>1. /\ todo \in Seq(Steps) /\ Progress /\ TypeOK /\ TypeOK' /\ TablesAgree /\ SocketUse
      /\ Len(todo) \in Nat \ {0}
    BY <1>0, Holder DEF Next, ControlStep
<1>2. SocketUse' /\ TablesAgree'
    BY <1>0, <1>1 DEF SocketUse, TablesAgree, socketVars, peerVars, threadVars
<1>3. CASE Rebinding
    <2>1. Served /\ PartsFrom(2) /\ peers \subseteq configured
        BY <1>3, InSettled DEF Settled, Rebinding
    <2>2. DOMAIN todo = 1 .. Len(todo)
        BY <1>1, LenProperties
    <2>3. ASSUME NEW i \in 1 .. Len(todo) PROVE todo[i] # <<"enable">>
        <3>1. CASE i = 1
            BY <1>3, <3>1 DEF Rebinding
        <3>2. CASE i # 1
            <4>1. todo[i] \in Parts
                BY <1>1, <2>1, <3>2 DEF PartsFrom
            <4>2. todo[i][1] \in PartNames /\ "enable" \notin PartNames
                BY <4>1, StepNames DEF PartNames
            <4> QED
                BY <4>2
        <3> QED
            BY <3>1, <3>2
    <2>4. running' = running
        BY <1>1, <2>2, <2>3 DEF OpenFails, TypeOK
    <2>5. Served' /\ peers' \subseteq configured'
        BY <1>0, <2>1, <2>4 DEF Served, socketVars, peerVars
    <2> QED
        BY <1>0, <1>1, <1>2, <2>5, NothingLeft, SettlesNext
<1>4. CASE GoingUp /\ Len(todo) = 2
    <2>1. todo[2] = <<"enable">> /\ socket = {} /\ 2 \in DOMAIN todo
        BY <1>1, <1>4, LenProperties DEF GoingUp
    <2>2. ~running'
        BY <2>1 DEF OpenFails
    <2>3. running /\ leaving = "no" /\ ~link /\ timers = {} /\ peers \subseteq configured
        BY <1>1, <1>4, Apart DEF IInv, TimersKept, ConfiguredKept, PlacesApart
    <2>4. Served' /\ peers' \subseteq configured'
        BY <1>0, <1>1, <2>1, <2>2, <2>3 DEF Served, socketVars, peerVars, TypeOK
    <2> QED
        BY <1>0, <1>1, <1>2, <2>4, NothingLeft, SettlesNext
<1>5. Rebinding \/ (GoingUp /\ Len(todo) = 2)
    BY <1>0, <1>1, Where
<1> QED
    BY <1>3, <1>4, <1>5

LEMMA CloseStep == IInv /\ Close => IInv'
<1> SUFFICES ASSUME IInv, Close PROVE IInv'
    OBVIOUS
<1>0. ~Idle /\ At("close") /\ Replace({}) /\ UNCHANGED <<ifVars, port, option, peerVars>>
    BY DEF Close, At
<1>1. /\ todo \in Seq(Steps) /\ Progress /\ TypeOK /\ TypeOK' /\ TablesAgree /\ SocketUse
      /\ Len(todo) \in Nat \ {0}
    BY <1>0, Holder DEF Next, ControlStep
<1>2. Closing /\ ~Disabling
    BY <1>0, <1>1, Where
<1>3. SocketUse' /\ TablesAgree' /\ socket' = {}
    <2>1. \A s \in {} : s.port = port' /\ (split' \/ s.option = option')
        OBVIOUS
    <2>2. SocketUse'
        BY <1>0, <1>1, <2>1, ReplaceUse
    <2> QED
        BY <1>0, <1>1, <2>2 DEF TablesAgree, peerVars, Replace
<1>4. /\ peers \subseteq configured
      /\ leaving = "no" => link = running /\ timers = IF running THEN peers ELSE {}
    BY <1>1, <1>2, Apart DEF IInv, TimersKept, ConfiguredKept, PlacesApart, Disabling
<1>5. peers' \subseteq configured' /\ UNCHANGED <<running, link, leaving, timers, peers>>
    BY <1>0, <1>4 DEF ifVars, peerVars
<1>6. Goes(<<>>) => /\ todo' \in Seq(Steps) /\ Len(todo') = Len(todo) - 1
                    /\ \A i \in 1 .. Len(todo') : todo'[i] = todo[i + 1]
    BY <1>0, <1>1, Done
<1>7. Goes(Retired) => /\ todo' \in Seq(Steps) /\ Len(todo') = Len(todo) + 1
                       /\ todo'[1] = <<"epochWait">> /\ todo'[2] = <<"soclose">>
                       /\ \A i \in 3 .. Len(todo') : todo'[i] = todo[i - 1]
    BY <1>0, <1>1, RetireFirst
<1>8. Goes(<<>>) \/ Goes(Retired)
    BY <1>0 DEF Replace
<1>9. CASE Len(todo) = 1 /\ (leaving = "no" => ~running)
    <2>1. Served'
        BY <1>1, <1>3, <1>4, <1>5, <1>9 DEF Served, TypeOK
    <2>2. Settled' /\ todo' \in Seq(Steps)
        <3>1. CASE Goes(<<>>)
            BY <1>6, <1>9, <3>1 DEF Settled, PartsFrom
        <3>2. CASE Goes(Retired)
            <4>1. todo' \in Seq(Steps) /\ Len(todo') = 2
                BY <1>7, <1>9, <3>2
            <4>2. PartsFrom(3)'
                BY <4>1 DEF PartsFrom
            <4> QED
                BY <1>7, <3>2, <4>1, <4>2 DEF Settled, Retiring
        <3> QED
            BY <1>8, <3>1, <3>2
    <2> QED
        BY <1>1, <1>3, <1>5, <2>1, <2>2, SettlesNext
<1>10. CASE /\ Len(todo) = 3 /\ todo[2] = <<"epochWait">>
            /\ todo[3] = <<"destroyAll">> /\ leaving = "destroyed"
    <2>1. Served'
        BY <1>1, <1>3, <1>5, <1>10 DEF Served, TypeOK
    <2>2. Ending' /\ todo' \in Seq(Steps)
        <3>1. CASE Goes(<<>>)
            <4>1. /\ todo' \in Seq(Steps) /\ Len(todo') = 2
                  /\ \A i \in 1 .. 2 : todo'[i] = todo[i + 1]
                BY <1>6, <1>10, <3>1
            <4>2. todo'[1] = <<"epochWait">> /\ todo'[2] = <<"destroyAll">>
                BY <1>10, <4>1
            <4> QED
                BY <1>5, <1>10, <4>1, <4>2 DEF Ending
        <3>2. CASE Goes(Retired)
            <4>1. /\ todo' \in Seq(Steps) /\ Len(todo') = 4
                  /\ todo'[1] = <<"epochWait">> /\ todo'[2] = <<"soclose">>
                  /\ \A i \in 3 .. Len(todo') : todo'[i] = todo[i - 1]
                BY <1>7, <1>10, <3>2
            <4>2. todo'[3] = <<"epochWait">> /\ todo'[4] = <<"destroyAll">>
                BY <1>10, <4>1
            <4> QED
                BY <1>5, <1>10, <4>1, <4>2 DEF Ending
        <3> QED
            BY <1>8, <3>1, <3>2
    <2> QED
        BY <1>1, <1>3, <1>5, <2>1, <2>2, SettlesNext DEF Settled
<1> QED
    BY <1>2, <1>9, <1>10 DEF Closing, Disabling

LEMMA EpochWaitStep == IInv /\ EpochWait => IInv'
<1> SUFFICES ASSUME IInv, EpochWait PROVE IInv'
    OBVIOUS
<1>0. /\ ~Idle /\ At("epochWait") /\ awaited = {} /\ Goes(<<>>)
      /\ UNCHANGED <<ifVars, socketVars, peerVars, threadVars>>
    BY DEF EpochWait, At
<1>1. /\ todo \in Seq(Steps) /\ Progress /\ TypeOK /\ TypeOK' /\ TablesAgree /\ SocketUse
      /\ Len(todo) \in Nat \ {0}
    BY <1>0, Holder DEF Next, ControlStep
<1>2. /\ todo' \in Seq(Steps) /\ Len(todo') = Len(todo) - 1 /\ Head(todo) = todo[1]
      /\ \A i \in 1 .. Len(todo') : todo'[i] = todo[i + 1]
    BY <1>0, <1>1, Done
<1>3. Retiring \/ Ending
    BY <1>0, <1>1, Where
<1>4. Served /\ peers \subseteq configured
    BY <1>3, InSettled DEF Settled
<1>5. SocketUse' /\ TablesAgree' /\ Served' /\ peers' \subseteq configured' /\ awaited' = {}
      /\ leaving' = leaving
    BY <1>0, <1>1, <1>4 DEF SocketUse, TablesAgree, Served, ifVars, socketVars, peerVars, threadVars
<1>6. todo[1][1] = "epochWait"
    BY <1>0, <1>2 DEF At
<1>7. CASE Retiring
    <2>1. Len(todo) >= 2 /\ todo[2] = <<"soclose">> /\ PartsFrom(3)
        BY <1>6, <1>7 DEF Retiring
    <2>2. Len(todo') >= 1 /\ todo'[1] = <<"soclose">>
        <3>1. Len(todo') >= 1 /\ 1 \in 1 .. Len(todo') /\ 1 + 1 = 2
            BY <1>1, <1>2, <2>1
        <3> QED
            BY <1>2, <2>1, <3>1
    <2>3. ASSUME NEW i \in 2 .. Len(todo') PROVE todo'[i] \in Parts
        <3>1. i \in 1 .. Len(todo') /\ i + 1 \in 3 .. Len(todo)
            BY <1>1, <1>2
        <3> QED
            BY <1>2, <2>1, <3>1 DEF PartsFrom
    <2>4. Retiring'
        BY <1>5, <2>2, <2>3 DEF Retiring, PartsFrom
    <2> QED
        BY <1>1, <1>2, <1>5, <2>4, SettlesNext DEF Settled
<1>8. CASE Ending
    <2>0. leaving' = "destroyed"
        BY <1>5, <1>8 DEF Ending
    <2>1. ASSUME /\ Len(todo) = 4 /\ todo[2] = <<"soclose">>
                 /\ todo[3] = <<"epochWait">> /\ todo[4] = <<"destroyAll">>
          PROVE  Ending'
        <3>1. Len(todo') = 3 /\ 1 \in 1 .. Len(todo') /\ 2 \in 1 .. Len(todo') /\ 3 \in 1 .. Len(todo')
            BY <1>2, <2>1
        <3>2. /\ todo'[1] = <<"soclose">> /\ todo'[2] = <<"epochWait">>
              /\ todo'[3] = <<"destroyAll">>
            BY <1>2, <2>1, <3>1
        <3> QED
            BY <1>5, <2>0, <3>1, <3>2 DEF Ending
    <2>2. ASSUME Len(todo) = 2 /\ todo[2] = <<"destroyAll">> PROVE Ending'
        <3>1. Len(todo') = 1 /\ todo'[1] = <<"destroyAll">>
            BY <1>2, <2>2
        <3> QED
            BY <2>0, <3>1 DEF Ending
    <2>3. \/ /\ Len(todo) = 4 /\ todo[2] = <<"soclose">>
             /\ todo[3] = <<"epochWait">> /\ todo[4] = <<"destroyAll">>
          \/ Len(todo) = 2 /\ todo[2] = <<"destroyAll">>
        <3>1. todo[1] # <<"soclose">> /\ todo[1] # <<"destroyAll">>
            BY <1>6
        <3> QED
            BY <1>8, <3>1 DEF Ending
    <2>4. Ending'
        BY <2>1, <2>2, <2>3
    <2> QED
        BY <1>1, <1>2, <1>5, <2>4, SettlesNext DEF Settled
<1> QED
    BY <1>3, <1>7, <1>8

LEMMA SocloseStep == IInv /\ Soclose => IInv'
<1> SUFFICES ASSUME IInv, Soclose PROVE IInv'
    OBVIOUS
<1>0. /\ ~Idle /\ At("soclose") /\ Goes(<<>>)
      /\ using' = [t \in Threads |-> IF using[t] = "retired" THEN "closed" ELSE using[t]]
      /\ UNCHANGED <<ifVars, socketVars, peerVars, awaited>>
    BY DEF Soclose, At
<1>1. /\ todo \in Seq(Steps) /\ Progress /\ TypeOK /\ TypeOK' /\ TablesAgree /\ SocketUse
      /\ Len(todo) \in Nat \ {0}
    BY <1>0, Holder DEF Next, ControlStep
<1>2. /\ todo' \in Seq(Steps) /\ Len(todo') = Len(todo) - 1 /\ Head(todo) = todo[1]
      /\ \A i \in 1 .. Len(todo') : todo'[i] = todo[i + 1]
    BY <1>0, <1>1, Done
<1>3. Retiring \/ Ending
    BY <1>0, <1>1, Where
<1>4. Served /\ peers \subseteq configured
    BY <1>3, InSettled DEF Settled
<1>5. todo[1][1] = "soclose"
    BY <1>0, <1>2 DEF At
<1>6. awaited = {}
    BY <1>3, <1>5 DEF Retiring, Ending
<1>7. \A t \in Threads : using'[t] # "closed" /\ (using'[t] = "retired" => t \in awaited')
    BY <1>0, <1>1, <1>6 DEF SocketUse
<1>8. SocketUse' /\ TablesAgree' /\ Served' /\ peers' \subseteq configured' /\ leaving' = leaving
    BY <1>0, <1>1, <1>4, <1>7 DEF SocketUse, TablesAgree, Served, ifVars, socketVars, peerVars
<1>9. CASE Retiring
    <2>1. PartsFrom(2)
        BY <1>5, <1>9 DEF Retiring
    <2> QED
        BY <1>0, <1>1, <1>8, <2>1, PartDone, SettlesNext DEF Settled
<1>10. CASE Ending
    <2>1. Len(todo) = 3 /\ todo[2] = <<"epochWait">> /\ todo[3] = <<"destroyAll">>
        BY <1>5, <1>10 DEF Ending
    <2>2. Len(todo') = 2 /\ todo'[1] = <<"epochWait">> /\ todo'[2] = <<"destroyAll">>
        BY <1>2, <2>1
    <2>3. Ending'
        BY <1>8, <1>10, <2>2 DEF Ending
    <2> QED
        BY <1>1, <1>2, <1>8, <2>3, SettlesNext DEF Settled
<1> QED
    BY <1>3, <1>9, <1>10

LEMMA OptionStep == IInv /\ Option => IInv'
<1> SUFFICES ASSUME IInv, Option PROVE IInv'
    OBVIOUS
<1>0. /\ ~Idle /\ At("option") /\ Goes(<<>>)
      /\ UNCHANGED <<ifVars, port, peerVars, threadVars>>
    BY DEF Option, At
<1>1. /\ todo \in Seq(Steps) /\ Progress /\ TypeOK /\ TypeOK' /\ TablesAgree /\ SocketUse
      /\ Len(todo) \in Nat \ {0}
    BY <1>0, Holder DEF Next, ControlStep
<1>2. PartsFrom(1)
    BY <1>0, <1>1, Where DEF PartNames
<1>3. Served /\ peers \subseteq configured
    BY <1>2, InSettled DEF Settled
<1>4. PICK o \in Options : option' = o /\ socket' = {[s EXCEPT !.option = o] : s \in socket}
    BY DEF Option
<1>5. ASSUME NEW s \in socket' PROVE s.port = port' /\ (split' \/ s.option = option')
    <2>1. PICK r \in socket : s = [r EXCEPT !.option = o]
        BY <1>4
    <2>2. r \in Sockets
        BY <1>1 DEF TypeOK
    <2>3. s.port = r.port /\ s.option = o
        BY <2>1, <2>2 DEF Sockets
    <2> QED
        BY <1>0, <1>1, <1>4, <2>3 DEF SocketUse
<1>6. (socket' # {}) = (socket # {})
    BY <1>4
<1>7. SocketUse' /\ TablesAgree' /\ Served' /\ peers' \subseteq configured'
    BY <1>0, <1>1, <1>3, <1>5, <1>6 DEF SocketUse, TablesAgree, Served, ifVars, peerVars, threadVars
<1> QED
    BY <1>0, <1>1, <1>2, <1>7, FromFirst, PartDone, SettlesNext DEF Settled

\* The sockets are those that there were, at the port they had.
LEMMA OptionSplitsStep == IInv /\ OptionSplits => IInv'
<1> SUFFICES ASSUME IInv, OptionSplits PROVE IInv'
    OBVIOUS
<1>0. /\ ~Idle /\ At("option") /\ todo' = <<>> /\ split'
      /\ UNCHANGED <<ifVars, port, peerVars, threadVars>>
    BY DEF OptionSplits, At
<1>1. /\ todo \in Seq(Steps) /\ Progress /\ TypeOK /\ TypeOK' /\ TablesAgree /\ SocketUse
      /\ Len(todo) \in Nat \ {0}
    BY <1>0, Holder DEF Next, ControlStep
<1>2. PartsFrom(1)
    BY <1>0, <1>1, Where DEF PartNames
<1>3. Served /\ peers \subseteq configured
    BY <1>2, InSettled DEF Settled
<1>4. PICK o \in Options, taken \in (SUBSET socket) \ {{}, socket} :
          socket' = (socket \ taken) \cup {[s EXCEPT !.option = o] : s \in taken}
    BY DEF OptionSplits
<1>5. ASSUME NEW s \in socket' PROVE s.port = port'
    <2>1. PICK r \in socket : s = r \/ s = [r EXCEPT !.option = o]
        BY <1>4
    <2>2. r \in Sockets
        BY <1>1 DEF TypeOK
    <2>3. s.port = r.port
        BY <2>1, <2>2 DEF Sockets
    <2> QED
        BY <1>0, <1>1, <2>3 DEF SocketUse
<1>6. (socket' # {}) = (socket # {})
    BY <1>4
<1>7. SocketUse' /\ TablesAgree' /\ Served' /\ peers' \subseteq configured'
    BY <1>0, <1>1, <1>3, <1>5, <1>6 DEF SocketUse, TablesAgree, Served, ifVars, peerVars, threadVars
<1> QED
    BY <1>0, <1>1, <1>7, NothingLeft, SettlesNext

\* The threads that send.
LEMMA SendStep == IInv /\ (\E t \in Threads : Load(t) \/ Sosend(t)) => IInv'
<1> SUFFICES ASSUME IInv, NEW t \in Threads, Load(t) \/ Sosend(t) PROVE IInv'
    OBVIOUS
<1>1. UNCHANGED <<ifVars, socketVars, peerVars, todo>>
    BY DEF Load, Sosend
<1>2. /\ UNCHANGED <<running, link, leaving, port, option, socket, split, private, checker>>
      /\ UNCHANGED <<peers, timers, owner, configured, todo>>
    BY <1>1 DEF ifVars, socketVars, peerVars
<1>3. TypeOK'
    BY TypeStep DEF IInv, Next
<1>4. \A u \in Threads : using'[u] # "closed" /\ (using'[u] = "retired" => u \in awaited')
    BY DEF IInv, SocketsKept, Load, Sosend, Exits, TypeOK
<1>5. awaited = {} => awaited' = {}
    BY DEF Load, Sosend, Exits
<1>6. \A m : PartsFrom(m) = PartsFrom(m)'
    BY <1>2 DEF PartsFrom
<1>7. \A key, new : Adding(key, new) = Adding(key, new)'
    BY <1>2, <1>6 DEF Adding
<1>8. GoingUp = GoingUp' /\ Closing = Closing'
    BY <1>2 DEF GoingUp, Closing
<1>9. (Ending => Ending') /\ (Retiring => Retiring') /\ (Rebinding => Rebinding')
    BY <1>2, <1>5, <1>6 DEF Ending, Retiring, Rebinding
<1>10. Progress'
    BY <1>2, <1>6, <1>7, <1>8, <1>9 DEF IInv, Progress, AddingPeer
<1>11. SocketsKept' /\ TablesAgree'
    BY <1>2, <1>4, <1>8 DEF IInv, SocketsKept, TablesAgree
<1>12. TimersKept'
    BY <1>2, <1>8 DEF IInv, TimersKept
<1>13. ConfiguredKept'
    BY <1>2, <1>7 DEF IInv, ConfiguredKept
<1> QED
    BY <1>2, <1>3, <1>10, <1>11, <1>12, <1>13 DEF IInv

-----------------------------------------------------------------------------
(* The steps of the timers, the key and the peers.                           *)

LEMMA EnableStep == IInv /\ Enable => IInv'
<1> SUFFICES ASSUME IInv, Enable PROVE IInv'
    OBVIOUS
<1>0. /\ ~Idle /\ At("enable") /\ Goes(<<>>) /\ timers' = peers /\ link' = TRUE
      /\ UNCHANGED <<running, leaving, socketVars, private, checker, peers, owner, configured, threadVars>>
    BY DEF Enable, At
<1>1. /\ todo \in Seq(Steps) /\ Progress /\ TypeOK /\ TypeOK' /\ TablesAgree /\ SocketUse
      /\ Len(todo) \in Nat \ {0}
    BY <1>0, Holder DEF Next, ControlStep
<1>2. GoingUp /\ Len(todo) = 1
    BY <1>0, <1>1, Where
<1>3. /\ running /\ leaving = "no" /\ socket # {} /\ peers \subseteq configured
    <2>1. running /\ leaving = "no"
        BY <1>2 DEF IInv, TimersKept
    <2>2. socket # {}
        BY <1>2 DEF GoingUp
    <2>3. peers \subseteq configured
        BY <1>1, <1>2, Apart DEF IInv, ConfiguredKept, PlacesApart
    <2> QED
        BY <2>1, <2>2, <2>3
<1>4. todo' \in Seq(Steps) /\ Len(todo') = 0
    BY <1>0, <1>1, <1>2, Done
<1>5. Settled'
    BY <1>4 DEF Settled, PartsFrom
<1>6. SocketUse' /\ TablesAgree' /\ Served' /\ peers' \subseteq configured'
    BY <1>0, <1>1, <1>3 DEF SocketUse, TablesAgree, Served, socketVars, threadVars, TypeOK
<1> QED
    BY <1>1, <1>4, <1>5, <1>6, SettlesNext

LEMMA DisableStep == IInv /\ Disable => IInv'
<1> SUFFICES ASSUME IInv, Disable PROVE IInv'
    OBVIOUS
<1>0. /\ ~Idle /\ At("disable") /\ Goes(<<>>) /\ timers' = {} /\ link' = FALSE
      /\ UNCHANGED <<running, leaving, socketVars, private, checker, peers, owner, configured, threadVars>>
    BY DEF Disable, At
<1>1. /\ todo \in Seq(Steps) /\ Progress /\ TypeOK /\ TypeOK' /\ TablesAgree /\ SocketUse
      /\ Len(todo) \in Nat \ {0}
    BY <1>0, Holder DEF Next, ControlStep
<1>2. Closing /\ Disabling
    BY <1>0, <1>1, Where
<1>3. Len(todo) = 2 /\ todo[2] = <<"close">> /\ ~running
    BY <1>2 DEF Closing, Disabling
<1>4. todo' \in Seq(Steps) /\ Len(todo') = 1 /\ todo'[1] = <<"close">>
    <2>1. /\ todo' \in Seq(Steps) /\ Len(todo') = Len(todo) - 1
          /\ \A i \in 1 .. Len(todo') : todo'[i] = todo[i + 1]
        BY <1>0, <1>1, Done
    <2> QED
        BY <1>3, <2>1
<1>5. Closing' /\ ~running'
    BY <1>0, <1>3, <1>4 DEF Closing
<1>6. peers \subseteq configured
    BY <1>1, <1>2, Apart DEF IInv, ConfiguredKept, PlacesApart
<1>7. SocketUse' /\ TablesAgree' /\ peers' \subseteq configured'
    BY <1>0, <1>1, <1>6 DEF SocketUse, TablesAgree, socketVars, threadVars
<1>8. link' = running' /\ timers' = {}
    <2>1. running' \in BOOLEAN
        BY <1>1 DEF TypeOK
    <2> QED
        BY <1>0, <1>5, <2>1
<1> QED
    BY <1>1, <1>4, <1>5, <1>7, <1>8, ClosesNext

\* wg_peer_destroy leaves nothing of a peer in the tables.
LEMMA DestroyedTables ==
    ASSUME TypeOK, TablesAgree, NEW gone, Destroyed(gone), gone \subseteq peers,
           private' = checker', private' \notin peers'
    PROVE  TablesAgree'
<1>1. timers' \subseteq peers'
    BY DEF Destroyed, TablesAgree
<1>2. ASSUME NEW a \in Addresses PROVE owner'[a] \in peers' \cup {NoKey}
    <2>1. owner'[a] = IF owner[a] \in gone THEN NoKey ELSE owner[a]
        BY DEF Destroyed, Released
    <2> QED
        BY <2>1 DEF TablesAgree, Destroyed
<1> QED
    BY <1>1, <1>2 DEF TablesAgree

LEMMA DestroyedServed ==
    ASSUME Served, NEW gone, Destroyed(gone), UNCHANGED <<running, leaving, link, socket>>
    PROVE  Served'
<1>1. timers = {} => timers' = {}
    BY DEF Destroyed
<1>2. timers = peers => timers' = peers'
    BY DEF Destroyed
<1>3. running' = running /\ leaving' = leaving /\ link' = link /\ socket' = socket
    OBVIOUS
<1> QED
    BY <1>1, <1>2, <1>3 DEF Served

\* What a part of a request does that is done at once.
LEMMA PartStep ==
    ASSUME IInv, ~Idle, Next, PartsFrom(1), Goes(<<>>) \/ todo' = <<>>,
           SocketUse', TablesAgree', Served', peers' \subseteq configured'
    PROVE  IInv'
<1>1. todo \in Seq(Steps) /\ TypeOK' /\ Len(todo) \in Nat \ {0}
    BY Holder
<1>2. todo' \in Seq(Steps) /\ PartsFrom(1)'
    BY <1>1, FromFirst, PartDone, NothingLeft
<1> QED
    BY <1>1, <1>2, SettlesNext DEF Settled

LEMMA DestroyAllStep == IInv /\ DestroyAll => IInv'
<1> SUFFICES ASSUME IInv, DestroyAll PROVE IInv'
    OBVIOUS
<1>0. /\ ~Idle /\ (At("destroyAll") \/ At("replace")) /\ Destroyed(peers) /\ Goes(<<>>)
      /\ UNCHANGED <<ifVars, socketVars, private, checker, threadVars>>
    BY DEF DestroyAll, At
<1>1. /\ todo \in Seq(Steps) /\ Progress /\ TypeOK /\ TypeOK' /\ TablesAgree /\ SocketUse
      /\ Len(todo) \in Nat \ {0}
    BY <1>0, Holder DEF Next, ControlStep
<1>2. Ending \/ PartsFrom(1)
    BY <1>0, <1>1, Where DEF PartNames
<1>3. Served
    BY <1>2, InSettled DEF Settled
<1>4. peers' = {}
    BY <1>0 DEF Destroyed
<1>5. Served'
    BY <1>0, <1>3, DestroyedServed DEF ifVars, socketVars
<1>6. SocketUse' /\ TablesAgree'
    BY <1>0, <1>1, <1>4, DestroyedTables DEF SocketUse, socketVars, threadVars, TablesAgree
<1>7. CASE PartsFrom(1)
    BY <1>0, <1>4, <1>5, <1>6, <1>7, PartStep DEF Next, ControlStep
<1>8. CASE Ending /\ ~PartsFrom(1)
    <2>1. todo[1][1] \in {"destroyAll", "replace"}
        BY <1>0, <1>1, Where DEF At
    <2>2. Len(todo) = 1
        BY <1>8, <2>1 DEF Ending
    <2>3. todo' \in Seq(Steps) /\ Len(todo') = 0
        BY <1>0, <1>1, <2>2, Done
    <2>4. Settled'
        BY <2>3 DEF Settled, PartsFrom
    <2> QED
        BY <1>1, <1>4, <1>5, <1>6, <2>3, <2>4, SettlesNext
<1> QED
    BY <1>2, <1>7, <1>8

LEMMA SkipStep == IInv /\ (Skip \/ Refuse) => IInv'
<1> SUFFICES ASSUME IInv, Skip \/ Refuse PROVE IInv'
    OBVIOUS
<1>0. /\ ~Idle /\ (\E part \in PartNames : At(part)) /\ (Goes(<<>>) \/ todo' = <<>>)
      /\ UNCHANGED <<ifVars, socketVars, peerVars, threadVars>>
    BY DEF Skip, Refuse, At, PartNames
<1>1. /\ todo \in Seq(Steps) /\ Progress /\ TypeOK /\ TablesAgree /\ SocketUse
    BY <1>0, Holder DEF Next, ControlStep
<1>2. PartsFrom(1)
    BY <1>0, <1>1, Where
<1>3. Served /\ peers \subseteq configured
    BY <1>2, InSettled DEF Settled
<1>4. SocketUse' /\ TablesAgree' /\ Served' /\ peers' \subseteq configured'
    BY <1>0, <1>1, <1>3 DEF SocketUse, TablesAgree, Served, ifVars, socketVars, peerVars, threadVars
<1> QED
    BY <1>0, <1>2, <1>4, PartStep DEF Next, ControlStep

LEMMA PortStep == IInv /\ Port => IInv'
<1> SUFFICES ASSUME IInv, Port PROVE IInv'
    OBVIOUS
<1>0. ~Idle /\ At("port") /\ UNCHANGED <<ifVars, option, socket, split, peerVars, threadVars>>
    BY DEF Port, At
<1>1. /\ todo \in Seq(Steps) /\ Progress /\ TypeOK /\ TypeOK' /\ TablesAgree /\ SocketUse
      /\ Len(todo) \in Nat \ {0}
    BY <1>0, Holder DEF Next, ControlStep
<1>2. PartsFrom(1)
    BY <1>0, <1>1, Where DEF PartNames
<1>3. Served /\ peers \subseteq configured
    BY <1>2, InSettled DEF Settled
<1>4. PICK p \in (Ports \cup {0}) \ {port} : NewPort(p)
    BY DEF Port
<1>5. TablesAgree' /\ Served' /\ peers' \subseteq configured'
    BY <1>0, <1>1, <1>3 DEF TablesAgree, Served, ifVars, peerVars
<1>6. CASE running
    <2>1. Goes(<< <<"open", p>> >>) /\ port' = port
        BY <1>4, <1>6 DEF NewPort
    <2>2. /\ << <<"open", p>> >> \in Seq(Steps) /\ Len(<< <<"open", p>> >>) = 1
          /\ << <<"open", p>> >>[1] = <<"open", p>>
        BY <1>4, StepNames
    <2>3. /\ todo' \in Seq(Steps) /\ Len(todo') = Len(todo)
          /\ todo'[1] = <<"open", p>>
          /\ \A i \in 2 .. Len(todo) : todo'[i] = todo[i]
        <3> DEFINE list == << <<"open", p>> >>
        <3>1. /\ todo' \in Seq(Steps) /\ Len(todo') = Len(list) + Len(todo) - 1
              /\ \A i \in 1 .. Len(list) : todo'[i] = list[i]
              /\ \A i \in 2 .. Len(todo) : todo'[Len(list) + i - 1] = todo[i]
            BY <1>0, <1>1, <2>1, <2>2, Replaced
        <3> HIDE DEF list
        <3>2. Len(list) = 1 /\ list[1] = <<"open", p>>
            BY <2>2 DEF list
        <3>3. Len(todo') = Len(todo) /\ todo'[1] = <<"open", p>>
            BY <1>1, <3>1, <3>2
        <3>4. ASSUME NEW i \in 2 .. Len(todo) PROVE todo'[i] = todo[i]
            <4>1. 1 + i - 1 = i
                BY <1>1
            <4> QED
                BY <3>1, <3>2, <4>1
        <3> QED
            BY <3>1, <3>3, <3>4
    <2>4. PartsFrom(2)'
        BY <1>1, <1>2, <2>3 DEF PartsFrom
    <2>5. Rebinding'
        BY <1>0, <1>1, <1>4, <1>6, <2>3, <2>4 DEF Rebinding, ifVars
    <2>6. SocketUse'
        BY <1>0, <1>1, <2>1 DEF SocketUse, threadVars
    <2> QED
        BY <1>1, <1>5, <2>3, <2>5, <2>6, SettlesNext DEF Settled
<1>7. CASE ~running
    <2>1. Goes(<<>>) /\ socket = {}
        BY <1>1, <1>3, <1>4, <1>7 DEF NewPort, Served, TypeOK
    <2>2. SocketUse'
        BY <1>0, <1>1, <2>1 DEF SocketUse, threadVars
    <2> QED
        BY <1>0, <1>2, <1>5, <2>1, <2>2, PartStep DEF Next, ControlStep
<1> QED
    BY <1>6, <1>7

LEMMA KeyStep == IInv /\ Key => IInv'
<1> SUFFICES ASSUME IInv, Key PROVE IInv'
    OBVIOUS
<1>0. /\ ~Idle /\ At("key") /\ Goes(<<>>)
      /\ UNCHANGED <<ifVars, socketVars, threadVars>>
    BY DEF Key, At
<1>1. /\ todo \in Seq(Steps) /\ Progress /\ TypeOK /\ TablesAgree /\ SocketUse
    BY <1>0, Holder DEF Next, ControlStep
<1>2. PartsFrom(1)
    BY <1>0, <1>1, Where DEF PartNames
<1>3. Served /\ peers \subseteq configured
    BY <1>2, InSettled DEF Settled
<1>4. PICK key \in KeyOrNone \ {private} :
          Destroyed(Conflicting(key)) /\ private' = key /\ checker' = key
    BY DEF Key
<1>5. Conflicting(key) \subseteq peers /\ key \notin peers'
    BY <1>4 DEF Conflicting, Destroyed
<1>6. TablesAgree'
    BY <1>1, <1>4, <1>5, DestroyedTables
<1>7. SocketUse' /\ Served'
    BY <1>0, <1>1, <1>3, <1>4, DestroyedServed DEF SocketUse, ifVars, socketVars, threadVars
<1>8. peers' \subseteq configured'
    BY <1>3, <1>4 DEF Destroyed
<1> QED
    BY <1>0, <1>2, <1>6, <1>7, <1>8, PartStep DEF Next, ControlStep

LEMMA PeerAddStep == IInv /\ PeerAdd => IInv'
<1> SUFFICES ASSUME IInv, PeerAdd PROVE IInv'
    OBVIOUS
<1>0. ~Idle /\ At("peer") /\ UNCHANGED <<ifVars, socketVars, threadVars>>
    BY DEF PeerAdd, At
<1>1. /\ todo \in Seq(Steps) /\ Progress /\ TypeOK /\ TypeOK' /\ TablesAgree /\ SocketUse
      /\ Len(todo) \in Nat \ {0}
    BY <1>0, Holder DEF Next, ControlStep
<1>2. PartsFrom(1)
    BY <1>0, <1>1, Where DEF PartNames
<1>3. Served /\ peers \subseteq configured
    BY <1>2, InSettled DEF Settled
<1>4. SocketUse'
    BY <1>0, <1>1 DEF SocketUse, socketVars, threadVars
<1>5. PICK key \in Keys :
          \/ key = private /\ Goes(<<>>) /\ UNCHANGED peerVars
          \/ /\ key # private
             /\ Destroyed({key} \cap peers)
             /\ Goes(<<>>)
             /\ UNCHANGED <<private, checker>>
          \/ /\ key \in peers
             /\ \E a \in {owner, Released({key})} : owner' = a
             /\ Continues(key, FALSE)
             /\ UNCHANGED <<private, checker, peers, timers, configured>>
          \/ /\ key \notin peers \cup {private} /\ Cardinality(peers) < MaxPeers
             /\ peers' = peers \cup {key}
             /\ timers' = timers \cup CreatedEnabled(key)
             /\ Continues(key, TRUE)
             /\ UNCHANGED <<private, checker, owner, configured>>
    BY DEF PeerAdd
<1>6. CASE Goes(<<>>) /\ UNCHANGED peerVars
    <2>1. TablesAgree' /\ Served' /\ peers' \subseteq configured'
        BY <1>0, <1>1, <1>3, <1>6 DEF TablesAgree, Served, ifVars, socketVars, peerVars
    <2> QED
        BY <1>0, <1>2, <1>4, <1>6, <2>1, PartStep DEF Next, ControlStep
<1>7. CASE Destroyed({key} \cap peers) /\ Goes(<<>>) /\ UNCHANGED <<private, checker>>
    <2>1. Served'
        BY <1>0, <1>3, <1>7, DestroyedServed DEF ifVars, socketVars
    <2>2. private' = checker' /\ private' \notin peers' /\ {key} \cap peers \subseteq peers
        BY <1>1, <1>7 DEF TablesAgree, Destroyed
    <2>3. TablesAgree'
        BY <1>1, <1>7, <2>2, DestroyedTables
    <2>4. peers' \subseteq configured'
        BY <1>3, <1>7 DEF Destroyed
    <2> QED
        BY <1>0, <1>2, <1>4, <1>7, <2>1, <2>3, <2>4, PartStep DEF Next, ControlStep
\* The rest of the request about the peer comes first.
<1>8. ASSUME NEW new \in BOOLEAN, Continues(key, new)
      PROVE  todo' \in Seq(Steps) /\ Adding(key, new)'
    <2>1. PICK n \in 0 .. MaxItems :
              Goes(Copies(<<"aip", key, new>>, n) \o << <<"peerEnds", key, new>> >>)
        BY <1>8 DEF Continues
    <2>2. n \in Nat
        BY <2>1, InterfaceAssumption
    <2> DEFINE list == Copies(<<"aip", key, new>>, n) \o << <<"peerEnds", key, new>> >>
    <2>3. /\ list \in Seq(Steps) /\ Len(list) = n + 1
          /\ \A i \in 1 .. n : list[i] = <<"aip", key, new>>
          /\ list[n + 1] = <<"peerEnds", key, new>>
        BY <2>2, PeerParts
    <2>4. Goes(list)
        BY <2>1
    <2> HIDE DEF list
    <2>5. /\ todo' \in Seq(Steps) /\ Len(todo') = Len(list) + Len(todo) - 1
          /\ \A i \in 1 .. Len(list) : todo'[i] = list[i]
          /\ \A i \in 2 .. Len(todo) : todo'[Len(list) + i - 1] = todo[i]
        BY <1>0, <1>1, <2>3, <2>4, Replaced
    <2>6. Len(todo') = n + Len(todo) /\ n \in 0 .. (Len(todo') - 1)
        BY <1>1, <2>2, <2>3, <2>5
    <2>7. ASSUME NEW i \in 1 .. n PROVE todo'[i] = <<"aip", key, new>>
        <3>1. i \in 1 .. Len(list)
            BY <2>2, <2>3
        <3> QED
            BY <2>3, <2>5, <3>1
    <2>8. todo'[n + 1] = <<"peerEnds", key, new>>
        <3>1. n + 1 \in 1 .. Len(list)
            BY <2>2, <2>3
        <3> QED
            BY <2>3, <2>5, <3>1
    <2>9. ASSUME NEW i \in n + 2 .. Len(todo') PROVE todo'[i] \in Parts
        <3>1. i - n \in 2 .. Len(todo) /\ n + 1 + (i - n) - 1 = i
            BY <1>1, <2>2, <2>6
        <3>2. todo'[i] = todo[i - n]
            BY <2>3, <2>5, <3>1
        <3> QED
            BY <1>1, <1>2, <3>1, <3>2 DEF PartsFrom
    <2> QED
        BY <2>5, <2>6, <2>7, <2>8, <2>9 DEF Adding, PartsFrom
<1>9. CASE /\ key \in peers
           /\ \E a \in {owner, Released({key})} : owner' = a
           /\ Continues(key, FALSE)
           /\ UNCHANGED <<private, checker, peers, timers, configured>>
    <2>1. todo' \in Seq(Steps) /\ Adding(key, FALSE)'
        BY <1>8, <1>9
    <2>2. AddingPeer'
        BY <1>9, <2>1 DEF AddingPeer
    <2>3. \A a \in Addresses : owner'[a] \in peers \cup {NoKey}
        BY <1>1, <1>9 DEF TablesAgree, Released
    <2>4. TablesAgree'
        BY <1>1, <1>9, <2>3 DEF TablesAgree
    <2>5. Served' /\ ConfiguredKept'
        BY <1>0, <1>3, <1>9 DEF Served, ConfiguredKept, ifVars, socketVars
    <2> QED
        BY <1>1, <1>4, <2>1, <2>2, <2>4, <2>5, AddsNext
<1>10. CASE /\ key \notin peers \cup {private}
            /\ peers' = peers \cup {key}
            /\ timers' = timers \cup CreatedEnabled(key)
            /\ Continues(key, TRUE)
            /\ UNCHANGED <<private, checker, owner, configured>>
    <2>1. todo' \in Seq(Steps) /\ Adding(key, TRUE)'
        BY <1>8, <1>10
    <2>2. AddingPeer'
        BY <1>10, <2>1 DEF AddingPeer
    <2>3. CreatedEnabled(key) \subseteq {key}
        BY DEF CreatedEnabled
    <2>4. TablesAgree'
        BY <1>1, <1>10, <2>3 DEF TablesAgree
    <2>5. ASSUME leaving = "no" PROVE timers' = IF running THEN peers' ELSE {}
        <3>1. link = running /\ timers = IF running THEN peers ELSE {}
            BY <1>3, <2>5 DEF Served
        <3>2. CASE running
            BY <1>10, <3>1, <3>2 DEF CreatedEnabled
        <3>3. CASE ~running
            BY <1>10, <3>1, <3>3 DEF CreatedEnabled
        <3> QED
            BY <3>2, <3>3
    <2>6. Served'
        BY <1>0, <1>3, <2>5 DEF Served, ifVars, socketVars
    <2>7. ConfiguredKept'
        BY <1>3, <1>10, <2>1 DEF ConfiguredKept
    <2> QED
        BY <1>1, <1>4, <2>1, <2>2, <2>4, <2>6, <2>7, AddsNext
<1> QED
    BY <1>5, <1>6, <1>7, <1>9, <1>10

LEMMA AllowedIpStep == IInv /\ AllowedIp => IInv'
<1> SUFFICES ASSUME IInv, AllowedIp PROVE IInv'
    OBVIOUS
<1>0. /\ ~Idle /\ At("aip") /\ Goes(<<>>)
      /\ UNCHANGED <<ifVars, socketVars, private, checker, peers, timers, configured, threadVars>>
    BY DEF AllowedIp, At
<1>1. /\ todo \in Seq(Steps) /\ Progress /\ TypeOK /\ TypeOK' /\ TablesAgree /\ SocketUse
    BY <1>0, Holder DEF Next, ControlStep
<1>2. PICK key \in peers, new \in BOOLEAN :
          /\ Adding(key, new) /\ Argument = key /\ Head(todo)[2] = key /\ Head(todo)[3] = new
          /\ Adding(key, new)'
    BY <1>0, <1>1, AtPeer
<1>3. SocketUse /\ TablesAgree /\ Served
    BY <1>2, InAdding DEF AddingPeer
<1>4. todo' \in Seq(Steps) /\ AddingPeer'
    BY <1>0, <1>1, <1>2, Done DEF AddingPeer
<1>5. \A a \in Addresses : owner'[a] \in peers \cup {NoKey}
    BY <1>1, <1>2 DEF AllowedIp, TablesAgree, TypeOK
<1>6. SocketUse' /\ TablesAgree' /\ Served'
    BY <1>0, <1>3, <1>5 DEF SocketUse, TablesAgree, Served, ifVars, socketVars, threadVars
<1>7. ASSUME NEW k \in peers' \ configured' PROVE Adding(k, TRUE)'
    <2>1. Adding(k, TRUE)
        BY <1>0, <1>7 DEF IInv, ConfiguredKept
    <2>2. k = key /\ new = TRUE
        BY <1>1, <1>2, <2>1, AddingOne
    <2> QED
        BY <1>2, <2>2
<1>8. ConfiguredKept'
    BY <1>7 DEF ConfiguredKept
<1> QED
    BY <1>1, <1>4, <1>6, <1>8, AddsNext

LEMMA PeerEndsStep == IInv /\ PeerEnds => IInv'
<1> SUFFICES ASSUME IInv, PeerEnds PROVE IInv'
    OBVIOUS
<1>0. /\ ~Idle /\ At("peerEnds") /\ configured' = configured \cup {Argument} /\ Goes(<<>>)
      /\ UNCHANGED <<ifVars, socketVars, private, checker, peers, timers, owner, threadVars>>
    BY DEF PeerEnds, At
<1>1. /\ todo \in Seq(Steps) /\ Progress /\ TypeOK /\ TypeOK' /\ TablesAgree /\ SocketUse
    BY <1>0, Holder DEF Next, ControlStep
<1>2. PICK key \in peers, new \in BOOLEAN :
          /\ Adding(key, new) /\ Argument = key /\ Head(todo)[2] = key /\ Head(todo)[3] = new
          /\ PartsFrom(2)
    BY <1>0, <1>1, AtPeer
<1>3. SocketUse /\ TablesAgree /\ Served
    BY <1>2, InAdding DEF AddingPeer
<1>4. SocketUse' /\ TablesAgree' /\ Served'
    BY <1>0, <1>3 DEF SocketUse, TablesAgree, Served, ifVars, socketVars, threadVars
<1>5. ASSUME NEW k \in peers PROVE k \in configured'
    <2>1. CASE k \in configured
        BY <1>0, <2>1
    <2>2. CASE k \notin configured
        <3>1. Adding(k, TRUE)
            BY <2>2 DEF IInv, ConfiguredKept
        <3>2. k = key
            BY <1>1, <1>2, <3>1, AddingOne
        <3> QED
            BY <1>0, <1>2, <3>2
    <2> QED
        BY <2>1, <2>2
<1>6. peers' \subseteq configured'
    BY <1>0, <1>5
<1> QED
    BY <1>0, <1>1, <1>2, <1>4, <1>6, PartDone, SettlesNext DEF Settled

LEMMA PeerFailsStep == IInv /\ PeerFails => IInv'
<1> SUFFICES ASSUME IInv, PeerFails PROVE IInv'
    OBVIOUS
<1>0. /\ ~Idle /\ (At("aip") \/ At("peerEnds")) /\ Destroyed(Cleans(Head(todo))) /\ todo' = <<>>
      /\ UNCHANGED <<ifVars, socketVars, private, checker, threadVars>>
    BY DEF PeerFails, At
<1>1. /\ todo \in Seq(Steps) /\ Progress /\ TypeOK /\ TypeOK' /\ TablesAgree /\ SocketUse
    BY <1>0, Holder DEF Next, ControlStep
<1>2. PICK key \in peers, new \in BOOLEAN :
          /\ Adding(key, new) /\ Head(todo)[2] = key /\ Head(todo)[3] = new
    BY <1>0, <1>1, AtPeer
<1>3. Cleans(Head(todo)) = IF new THEN {key} ELSE {}
    BY <1>2 DEF Cleans
<1>4. SocketUse /\ TablesAgree /\ Served
    BY <1>2, InAdding DEF AddingPeer
<1>5. Served'
    BY <1>0, <1>4, DestroyedServed DEF ifVars, socketVars
<1>6. private' = checker' /\ private' \notin peers' /\ Cleans(Head(todo)) \subseteq peers
    BY <1>0, <1>2, <1>3, <1>4 DEF TablesAgree, Destroyed
<1>7. TablesAgree'
    BY <1>0, <1>1, <1>6, DestroyedTables
<1>8. SocketUse'
    BY <1>0, <1>4 DEF SocketUse, socketVars, threadVars
<1>9. ASSUME NEW k \in peers' PROVE k \in configured'
    <2>1. k \in peers /\ k \notin Cleans(Head(todo))
        BY <1>0, <1>9 DEF Destroyed
    <2>2. k \in configured
        <3>1. ASSUME k \notin configured PROVE FALSE
            <4>1. Adding(k, TRUE)
                BY <2>1, <3>1 DEF IInv, ConfiguredKept
            <4>2. k = key /\ new = TRUE
                BY <1>1, <1>2, <4>1, AddingOne
            <4> QED
                BY <1>3, <2>1, <4>2
        <3> QED
            BY <3>1
    <2> QED
        BY <1>0, <2>1, <2>2 DEF Destroyed
<1> QED
    BY <1>0, <1>1, <1>5, <1>7, <1>8, <1>9, NothingLeft, SettlesNext

-----------------------------------------------------------------------------
(* The theorems.                                                             *)

LEMMA InvariantStep == IInv /\ [Next]_vars => IInv'
<1>1. IInv /\ UNCHANGED vars => IInv'
    <2> SUFFICES ASSUME IInv, UNCHANGED vars PROVE IInv'
        OBVIOUS
    <2>1. /\ UNCHANGED <<running, link, leaving, port, option, socket, split, private, checker>>
          /\ UNCHANGED <<peers, timers, owner, configured, todo, using, awaited>>
        BY DEF vars, ifVars, socketVars, peerVars, threadVars
    <2>2. \A m : PartsFrom(m) = PartsFrom(m)'
        BY <2>1 DEF PartsFrom
    <2>3. \A key, new : Adding(key, new) = Adding(key, new)'
        BY <2>1, <2>2 DEF Adding
    <2>4. GoingUp = GoingUp' /\ Closing = Closing' /\ Ending = Ending' /\ Retiring = Retiring'
          /\ Rebinding = Rebinding'
        BY <2>1, <2>2 DEF GoingUp, Closing, Ending, Retiring, Rebinding
    <2>5. Progress'
        BY <2>1, <2>2, <2>3, <2>4 DEF IInv, Progress, AddingPeer
    <2>6. SocketsKept' /\ TablesAgree' /\ TimersKept' /\ ConfiguredKept'
        BY <2>1, <2>3, <2>4 DEF IInv, SocketsKept, TablesAgree, TimersKept, ConfiguredKept
    <2>7. TypeOK'
        BY <2>1 DEF IInv, TypeOK
    <2> QED
        BY <2>1, <2>5, <2>6, <2>7 DEF IInv
<1>2. /\ IInv /\ (Open \/ OpenFails \/ Close \/ EpochWait \/ Soclose) => IInv'
      /\ IInv /\ (Option \/ OptionSplits) => IInv'
    BY OpenStep, OpenFailsStep, CloseStep, EpochWaitStep, SocloseStep, OptionStep, OptionSplitsStep
<1>3. IInv /\ (Enable \/ Disable \/ DestroyAll \/ Skip \/ Refuse \/ Port \/ Key) => IInv'
    BY EnableStep, DisableStep, DestroyAllStep, SkipStep, PortStep, KeyStep
<1>4. IInv /\ (PeerAdd \/ AllowedIp \/ PeerEnds \/ PeerFails) => IInv'
    BY PeerAddStep, AllowedIpStep, PeerEndsStep, PeerFailsStep
<1>5. IInv /\ ControlStep => IInv'
    BY <1>2, <1>3, <1>4 DEF ControlStep
<1> QED
    BY <1>1, <1>5, UpStep, DownStep, SetStep, LeaveStep, SendStep DEF Next

\* After any sequence of commands, whatever fails half-way, the interface is as
\* the invariant says.
THEOREM Inductive == Spec => []IInv
<1> QED BY InitInvariant, InvariantStep, PTL DEF Spec

\* No socket is closed under a thread that sends through it (wg_socket_set and the
\* epoch), and the sockets are those of the configuration.
THEOREM SocketsAlwaysSound == Spec => []SocketsSound
<1>1. IInv => SocketsSound
    BY InIdle DEF IInv, SocketsKept, SocketsSound, SocketUse, Served
<1> QED BY <1>1, Inductive, PTL

\* Keys, cookies, timers and allowed addresses agree with the table of peers through
\* every request of wgc_set.
THEOREM TablesAlwaysAgree == Spec => []TablesAgree
<1>1. IInv => TablesAgree
    BY DEF IInv
<1> QED BY <1>1, Inductive, PTL

\* A request of wgc_set that fails leaves no peer half made, and the peers of an
\* interface that runs are served by their timers.
THEOREM PeersAlwaysServed == Spec => []PeersServed
<1>1. IInv => PeersServed
    BY InIdle DEF PeersServed, Served
<1> QED BY <1>1, Inductive, PTL
=============================================================================
