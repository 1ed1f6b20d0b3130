---------------------------- MODULE RegionService ----------------------------
(***************************************************************************)
(* What the runtime API and the device promise the holder of a region.     *)
(*                                                                         *)
(* The device serves each handle a window of the backing memory, the pages *)
(* the window is read through, once the driver has mapped some, and the    *)
(* program it was given, if any.  A call for one handle changes what the   *)
(* device does for that handle and for no other; a new window touches no   *)
(* window served, unless it is the window of the handle that was cloned.   *)
(* Configurations, registers, blocks and the reasons for which a call      *)
(* fails are left to the implementation.                                   *)
(***************************************************************************)
EXTENDS Integers

CONSTANTS Regions,      \* the handles a process may hold
          BackingSize,  \* bytes of backing memory
          Pages,        \* what the driver may map a region to
          Programs,     \* DTL programs
          None          \* no pages or program

VARIABLE served         \* served[r]: what the device does for r

Idle == [window |-> [off |-> 0, size |-> 0], pages |-> None, program |-> None]

(* Windows of at least one byte that lie in the backing memory.            *)
Windows == {w \in [off : 0 .. BackingSize, size : 1 .. BackingSize] :
               w.off + w.size <= BackingSize}

Apart(v, w) == v.off + v.size <= w.off \/ w.off + w.size <= v.off

Serving(r) == served[r].window.size # 0

(* Pages no other handle reads its window through.                         *)
PagesFor(r) ==
    Pages \ {served[q].pages : q \in {p \in Regions \ {r} : Serving(p)}}

-----------------------------------------------------------------------------
Init == served = [r \in Regions |-> Idle]

(* The device starts to serve w to r.  The driver may fail to map it.      *)
Serve(r, w) ==
    /\ ~Serving(r)
    /\ \E pages \in PagesFor(r) \cup {None} :
          served' = [served EXCEPT ![r] =
                        [window |-> w, pages |-> pages, program |-> None]]

Open(r) ==
    \E w \in Windows :
        /\ \A q \in Regions : Serving(q) => Apart(w, served[q].window)
        /\ Serve(r, w)

Clone(r, q) == Serving(q) /\ Serve(r, served[q].window)

(* The driver moves the window of r to other pages.                        *)
Move(r) ==
    /\ Serving(r)
    /\ \E pages \in PagesFor(r) :
          served' = [served EXCEPT ![r].pages = pages]

(* A call that ends the process may leave the handle without a program.    *)
Load(r) ==
    /\ Serving(r)
    /\ \E p \in Programs \cup {None} :
          served' = [served EXCEPT ![r].program = p]

Close(r) == Serving(r) /\ served' = [served EXCEPT ![r] = Idle]

(* Another process takes over: it holds no region.                         *)
Restart == served' = [r \in Regions |-> Idle]

Next == \/ \E r \in Regions :
              \/ Open(r)
              \/ \E q \in Regions : Clone(r, q)
              \/ Move(r)
              \/ Load(r)
              \/ Close(r)
        \/ Restart

Spec == Init /\ [][Next]_served
=============================================================================
