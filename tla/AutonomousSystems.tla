------------------------- MODULE AutonomousSystems -------------------------
(***************************************************************************)
(* AS.cpp: how the main thread (menu entries 3 and 4 of main.cpp) attaches *)
(* an AS to its provider, announces its destinations breadth first, and    *)
(* withdraws them, while the router threads read the in_use flags it sets  *)
(* one after the other and without a lock.  Frames for those destinations  *)
(* cross the routers at the same time.                                     *)
(*                                                                         *)
(* The bookkeeping of an AS is the main thread's alone; its flags are      *)
(* written one per step, after the bookkeeping of the call.                *)
(***************************************************************************)
EXTENDS Naturals, Sequences, FiniteSets, SequencesExt

CONSTANTS
  ASList,        \* global_as_list: the names, in order
  HostASes,      \* the ones with m_host
  Adjacent,      \* m_adjacent_as_list of each AS
  BorderRouters, \* m_border_router_list of each AS
  Provider,      \* as[3] in main.cpp
  Newcomer,      \* as[4] in main.cpp
  InitialRoutes, \* per router, what its file says of each destination it has a row for
  InitialReach,  \* what main.cpp adds with addReachableDestination
  GivenPaths,    \* per AS, what main.cpp passes to addPathList
  NextRouter,    \* per router, the one its rows for the newcomer lead to, or "receiver"
  FirstRouter,   \* the router of the sender
  MaxFrames      \* bound: how many frames the sender sends to the newcomer

ASes == Range(ASList)
Routers == DOMAIN InitialRoutes
Announced == InitialReach[Newcomer]
Way == DOMAIN NextRouter        \* the routers a frame for the newcomer meets

ASSUME TopologyAssumption ==
  /\ ASList \in Seq(ASes) /\ HostASes \subseteq ASes
  /\ Provider \in ASes \ HostASes /\ Newcomer \in HostASes
  /\ \A as \in ASes : /\ Adjacent[as] \subseteq ASes
                      /\ BorderRouters[as] \in Seq(Routers)
  /\ DOMAIN InitialReach = ASes
  /\ MaxFrames \in Nat

\* main.cpp calls addAdjacentAS both ways, and its ASes without a host hang together.
ASSUME NeighbourAssumption ==
  /\ \A a \in ASes : \A b \in Adjacent[a] : a \in Adjacent[b]
  /\ Newcomer \in Adjacent[Provider]
  /\ \A group \in SUBSET (ASes \ HostASes) :
       /\ Provider \in group
       /\ \A as \in group : Adjacent[as] \ HostASes \subseteq group
       => group = ASes \ HostASes

\* Nobody reaches the newcomer at first, and the first router's rows for it are not in
\* use.  From there a frame meets routers of the provider and of the newcomer only; those
\* of the newcomer have their rows in use and belong to no other AS.
ASSUME WayAssumption ==
  /\ \A as \in ASes \ HostASes : InitialReach[as] \cap Announced = {}
  /\ FirstRouter \in Way /\ Way \subseteq Routers
  /\ FirstRouter \notin Range(BorderRouters[Provider])
  /\ \E as \in ASes \ HostASes : FirstRouter \in Range(BorderRouters[as])
  /\ \A r \in Way : /\ NextRouter[r] \in (Way \ {FirstRouter}) \cup {"receiver"}
                   /\ Announced \subseteq DOMAIN InitialRoutes[r]
  /\ \A d \in Announced : ~InitialRoutes[FirstRouter][d]
  /\ \A r \in Way \ {FirstRouter} :
       \/ r \in Range(BorderRouters[Provider])
       \/ /\ \A as \in ASes \ HostASes : r \notin Range(BorderRouters[as])
          /\ \A d \in Announced : InitialRoutes[r][d]
  /\ Routers \cap {"receiver", "refused", "lost"} = {}
  /\ \A r \in Routers : InitialRoutes[r] \in [DOMAIN InitialRoutes[r] -> BOOLEAN]

VARIABLES
  in_use,        \* the flag of each row of each router
  m_reachable,   \* m_reachable_dest_ip_list of each AS
  m_path_list,   \* of each AS: a destination and the ASes on the way to it
  searched,      \* global_as_search_list: the names set to true
  as_queue,      \* announcements of hookUpRequest still to be handled
  to_announce,   \* destinations hookUpRequest has still to announce
  to_signal,     \* ASes withdrawl has still to signal
  to_erase,      \* destinations withdrawalSignal has still to erase, at the next of them
  writes,        \* flags of this call still to be written
  frames         \* history: where each frame is, and whether a withdrawal was under
                 \* way at some time since it passed the first router

bookkeeping == <<m_reachable, m_path_list, searched>>
work == <<as_queue, to_announce, to_signal, to_erase, writes>>
vars == <<in_use, bookkeeping, work, frames>>

\* addPathList fills a PathListBlock and leaves it: nothing is pushed to m_path_list.
AddPathList(list, given) == list

Init ==
  /\ in_use = InitialRoutes
  /\ m_reachable = InitialReach
  /\ m_path_list = [as \in ASes |-> AddPathList(<<>>, GivenPaths[as])]
  /\ searched = {}
  /\ as_queue = <<>> /\ to_announce = {} /\ to_signal = <<>> /\ writes = <<>>
  /\ to_erase = Announced
  /\ frames = <<>>

-----------------------------------------------------------------------------
(* The main thread.                                                        *)

Idle == as_queue = <<>> /\ to_announce = {} /\ to_signal = <<>> /\ writes = <<>>
Withdrawing == to_signal # <<>>

\* The flags of an AS's border routers for a destination, in the order of the loop.
FlagsFor(as, dest, value) ==
  [k \in DOMAIN BorderRouters[as] |->
     [router |-> BorderRouters[as][k], dest |-> dest, value |-> value]]

\* The inner loop, over the rows of one router: it may have none for the destination.
WriteFlag ==
  /\ writes # <<>>
  /\ LET w == Head(writes)
     IN  in_use' = IF w.dest \in DOMAIN in_use[w.router]
                   THEN [in_use EXCEPT ![w.router][w.dest] = w.value] ELSE in_use
  /\ writes' = Tail(writes)
  /\ UNCHANGED <<bookkeeping, as_queue, to_announce, to_signal, to_erase, frames>>

\* hookUpRequest: nothing to do unless the newcomer has destinations the provider
\* does not reach yet.
HookUpRequest ==
  /\ Idle
  /\ to_announce' = m_reachable[Newcomer] \ m_reachable[Provider]
  /\ to_announce' # {}
  /\ UNCHANGED <<in_use, bookkeeping, as_queue, to_signal, to_erase, writes, frames>>

\* Messages for a set of neighbours, in the order an unordered_map happens to have.
Messages(neighbours, path, dest) ==
  {[k \in DOMAIN order |-> [to |-> order[k], path |-> path, dest |-> dest]] :
     order \in SetToSeqs(neighbours)}

\* Mutant: the provider tells its neighbours and forgets its own routers.
AnnounceOwnFlagsForgotten(dest) ==
  /\ writes = <<>> /\ as_queue = <<>> /\ dest \in to_announce
  /\ to_announce' = to_announce \ {dest}
  /\ m_path_list' = [m_path_list EXCEPT ![Provider] =
                       Append(@, [dest |-> dest, path |-> <<Newcomer>>])]
  /\ m_reachable' = [m_reachable EXCEPT ![Provider] = @ \cup {dest}]
  /\ searched' = {Provider, Newcomer} \cup Adjacent[Provider]
  /\ \E messages \in Messages(Adjacent[Provider] \ {Provider, Newcomer},
                              <<Provider, Newcomer>>, dest) :
       as_queue' = messages
  /\ UNCHANGED <<in_use, to_signal, to_erase, writes, frames>>

\* One round of the loop of hookUpRequest.
Announce(dest) ==
  /\ writes = <<>> /\ as_queue = <<>> /\ dest \in to_announce
  /\ to_announce' = to_announce \ {dest}
  /\ writes' = FlagsFor(Provider, dest, TRUE)
  /\ m_path_list' = [m_path_list EXCEPT ![Provider] =
                       Append(@, [dest |-> dest, path |-> <<Newcomer>>])]
  /\ m_reachable' = [m_reachable EXCEPT ![Provider] = @ \cup {dest}]
  /\ searched' = {Provider, Newcomer} \cup Adjacent[Provider]
  /\ \E messages \in Messages(Adjacent[Provider] \ {Provider, Newcomer},
                              <<Provider, Newcomer>>, dest) :
       as_queue' = messages
  /\ UNCHANGED <<in_use, to_signal, to_erase, frames>>

\* Mutant: the announcement is looked at and never popped.
IgnoreUpdateKeepsHead ==
  /\ writes = <<>> /\ as_queue # <<>>
  /\ \/ Head(as_queue).to \in HostASes
     \/ Head(as_queue).dest \in m_reachable[Head(as_queue).to]
  /\ UNCHANGED vars

\* broadcastUpdate at a host AS, or at one that has the destination already.
IgnoreUpdate ==
  /\ writes = <<>> /\ as_queue # <<>>
  /\ \/ Head(as_queue).to \in HostASes
     \/ Head(as_queue).dest \in m_reachable[Head(as_queue).to]
  /\ as_queue' = Tail(as_queue)
  /\ UNCHANGED <<in_use, bookkeeping, to_announce, to_signal, to_erase, writes, frames>>

\* Mutant: an AS appends itself to the path instead of putting itself in front.
PathThroughAtEnd(as, path) == path \o <<as>>
PathThrough(as, path) == <<as>> \o path

\* broadcastUpdate
BroadcastUpdate ==
  LET update == Head(as_queue)
      as == update.to
      fresh == Adjacent[as] \ searched
  IN  /\ writes = <<>> /\ as_queue # <<>>
      /\ as \notin HostASes /\ update.dest \notin m_reachable[as]
      /\ m_reachable' = [m_reachable EXCEPT ![as] = @ \cup {update.dest}]
      /\ writes' = FlagsFor(as, update.dest, TRUE)
      /\ m_path_list' = [m_path_list EXCEPT ![as] =
                           Append(@, [dest |-> update.dest, path |-> update.path])]
      /\ searched' = searched \cup fresh
      /\ \E messages \in Messages(fresh, PathThrough(as, update.path), update.dest) :
           as_queue' = Tail(as_queue) \o messages
      /\ UNCHANGED <<in_use, to_announce, to_signal, to_erase, frames>>

\* Mutant: the list is gone through from its end.
WithdrawlBackwards ==
  /\ Idle
  /\ to_signal' = Reverse(ASList) /\ to_erase' = m_reachable[Newcomer]
  /\ frames' = [k \in DOMAIN frames |-> [frames[k] EXCEPT !.withdrawing = TRUE]]
  /\ UNCHANGED <<in_use, bookkeeping, as_queue, to_announce, writes>>

\* withdrawl: every AS of the global list is signalled, in the order of the list.
Withdrawl ==
  /\ Idle
  /\ to_signal' = ASList /\ to_erase' = m_reachable[Newcomer]
  /\ frames' = [k \in DOMAIN frames |-> [frames[k] EXCEPT !.withdrawing = TRUE]]
  /\ UNCHANGED <<in_use, bookkeeping, as_queue, to_announce, writes>>

\* Mutant: the paths to a destination that is gone are kept.
WithoutFirstKept(paths, dest) == paths
\* Only the first path to a destination is erased: the loop breaks there.
WithoutFirst(paths, dest) == RemoveFirstMatch(paths, LAMBDA p : p.dest = dest)

\* Mutant: host ASes react to the signal like the others.
ReactsAlways(as) == as \in ASes
Reacts(as) == as \notin HostASes

\* One round of the loop of withdrawalSignal.
WithdrawalSignal(dest) ==
  LET as == Head(to_signal)
  IN  /\ writes = <<>> /\ to_signal # <<>> /\ Reacts(as) /\ dest \in to_erase
      /\ to_erase' = to_erase \ {dest}
      /\ writes' = FlagsFor(as, dest, FALSE)
      /\ m_reachable' = [m_reachable EXCEPT ![as] = @ \ {dest}]
      /\ m_path_list' = [m_path_list EXCEPT ![as] = WithoutFirst(@, dest)]
      /\ UNCHANGED <<in_use, searched, as_queue, to_announce, to_signal, frames>>

\* withdrawalSignal returns, from a host AS at once, and the next AS is signalled.
SignalNext ==
  /\ writes = <<>> /\ to_signal # <<>>
  /\ Reacts(Head(to_signal)) => to_erase = {}
  /\ to_signal' = Tail(to_signal) /\ to_erase' = m_reachable[Newcomer]
  /\ UNCHANGED <<in_use, bookkeeping, as_queue, to_announce, writes, frames>>

-----------------------------------------------------------------------------
(* The frames for the newcomer's destinations, and the routers' lookups.   *)

SendFrame(dest) ==
  /\ Len(frames) < MaxFrames
  /\ frames' = Append(frames, [at |-> FirstRouter, dest |-> dest, withdrawing |-> FALSE])
  /\ UNCHANGED <<in_use, bookkeeping, work>>

\* handlePacket of the router a frame is at: it is passed on, or reported unreachable
\* by the first router (refused) or a later one (lost).
RouteFrame(k) ==
  LET frame == frames[k]
      first == frame.at = FirstRouter
  IN  /\ frame.at \in Routers
      /\ frames' =
           [frames EXCEPT ![k].at = IF in_use[frame.at][frame.dest] THEN NextRouter[frame.at]
                                    ELSE IF first THEN "refused" ELSE "lost",
                          ![k].withdrawing = IF first THEN Withdrawing ELSE @]
      /\ UNCHANGED <<in_use, bookkeeping, work>>

MainThread == \/ HookUpRequest
              \/ \E dest \in Announced : Announce(dest)
              \/ BroadcastUpdate \/ IgnoreUpdate
              \/ Withdrawl \/ SignalNext
              \/ \E dest \in Announced : WithdrawalSignal(dest)
              \/ WriteFlag

Next == \/ MainThread
        \/ \E dest \in Announced : SendFrame(dest)
        \/ \E k \in DOMAIN frames : RouteFrame(k)

\* The main thread goes on with a call it has begun.
Spec == Init /\ [][Next]_vars /\ WF_vars(~Idle /\ MainThread)

-----------------------------------------------------------------------------
(* Properties.                                                             *)

\* The lists of every AS and the flags keep their types, and the bookkeeping of the
\* host ASes is never touched.
TypeOK ==
  /\ DOMAIN in_use = Routers
  /\ \A r \in Routers : in_use[r] \in [DOMAIN InitialRoutes[r] -> BOOLEAN]
  /\ DOMAIN m_reachable = ASes
  /\ \A as \in ASes : m_reachable[as] \subseteq InitialReach[as] \cup Announced
  /\ m_path_list \in [ASes -> Seq([dest : Announced, path : Seq(ASes)])]
  /\ \A as \in HostASes : m_reachable[as] = InitialReach[as] /\ m_path_list[as] = <<>>
  /\ searched \subseteq ASes /\ to_announce \subseteq Announced
  /\ as_queue \in Seq([to : ASes, path : Seq(ASes), dest : Announced])
  /\ to_signal \in Seq(ASes) /\ to_erase \subseteq Announced
  /\ writes \in Seq([router : Routers, dest : Announced, value : BOOLEAN])
  /\ frames \in Seq([at : Way \cup {"receiver", "refused", "lost"}, dest : Announced,
                     withdrawing : BOOLEAN])

\* hookUpRequest sets the flags nearest to the newcomer first and withdrawl clears the
\* farthest first: although no lock is held, a frame the first router passed on is
\* lost only if a withdrawal was under way since.
AttachingLosesNothing ==
  \A k \in DOMAIN frames : frames[k].at = "lost" => frames[k].withdrawing

\* The path an AS keeps is a way to the newcomer over neighbours, without a loop and
\* not back through the AS itself.
PathsLeadToNewcomer ==
  \A as \in ASes : \A k \in DOMAIN m_path_list[as] :
    LET way == <<as>> \o m_path_list[as][k].path
    IN  /\ Last(way) = Newcomer
        /\ \A j \in 1..(Len(way) - 1) : way[j + 1] \in Adjacent[way[j]]
        /\ IsInjective(way)

\* Where the list of an AS has paths to a destination.
PathsTo(as, d) == {k \in DOMAIN m_path_list[as] : m_path_list[as][k].dest = d}

\* Between two calls the whole network agrees with the provider: every AS that is
\* no host reaches the same destinations of the newcomer, with one path each, and its
\* routers let their frames through; when the provider does not, none enters.
NetworkAgrees ==
  Idle => \A d \in Announced, as \in ASes \ HostASes :
    LET known == d \in m_reachable[Provider]
    IN  /\ d \in m_reachable[as] <=> known
        /\ Cardinality(PathsTo(as, d)) = (IF known THEN 1 ELSE 0)
        /\ known => \A r \in Range(BorderRouters[as]) :
                      d \in DOMAIN in_use[r] => in_use[r][d]
        /\ ~known => ~in_use[FirstRouter][d]

\* The menu comes back: the breadth-first search and the withdrawal both end.
CallsReturn == ~Idle ~> Idle

\* main.cpp:96 announces an update of m_path_list, and AS.cpp:114 keeps a path beside
\* every reachable destination: the paths main.cpp passes to addPathList are kept.
GivenPathsAreListed ==
  \A as \in ASes : \A k \in DOMAIN GivenPaths[as] :
    GivenPaths[as][k] \in Range(m_path_list[as])

=============================================================================
