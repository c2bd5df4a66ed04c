---------------------------- MODULE MCFleetView -----------------------------
(* A host of three projects: the agent's, and two of which one runs the    *)
(* proxy.  The proxy moves, and with it the container that mountinfo names *)
(* goes; one that shares its network stays.                                *)
EXTENDS FleetView

CONSTANTS feeder, r1, none

C(id, name, project, net) == [id |-> id, name |-> name, project |-> project, net |-> net]
agent == C("a", "agent", "docker-agent", none)
MCLists == <<{agent, C("x", "proxy", "edge", none)},
             {C("y", "proxy", "shop", none), C("w", "web", "edge", "agent")}>>
MCEntries == [n \in {"docker-agent", "edge", "shop"} |->
  [valid |-> TRUE, inside |-> n # "shop", owner |-> none]]
(* A move, a request and a failed list; or two events to the images; or    *)
(* one to the images with a move or with a failed list.                    *)
B(moves, requests, lists, images) ==
  [move |-> moves, request |-> requests, list |-> lists, image |-> images]
MCBudgets == {B(1, 1, 1, 0), B(0, 0, 0, 2), B(1, 0, 0, 1), B(0, 0, 1, 1)}
=============================================================================
