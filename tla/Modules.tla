------------------------------ MODULE Modules -------------------------------
(***************************************************************************)
(* Loadable modules and the registries they hook into.                     *)
(*                                                                         *)
(*   src/src/modules.c        loading and removing                         *)
(*   src/src/events.c         triggers                                     *)
(*   src/src/numeric.c        numerics                                     *)
(*   src/src/list.c           commands of users, servers and CTCP          *)
(*   src/dmodules/*           what the modules register and drop           *)
(*                                                                         *)
(* The registries are linked lists of handlers, each with the module that  *)
(* owns it, or NULL for the bot's own.  A module goes in two ways at once: *)
(* it drops its handlers itself when it is told to shut down, and the      *)
(* loader then drops whatever it has left, walking lists whose nodes it    *)
(* frees.  In between the code of the module is unmapped already.          *)
(*                                                                         *)
(* The loader is sequential: LOADMODULE and REMOVEMODULE run to their end  *)
(* before anything else is handled.  Their loops are taken a turn a step,  *)
(* so that a pointer they hold is part of the state.                       *)
(***************************************************************************)
EXTENDS LinkedList

CONSTANTS
    Name,       \* what LOADMODULE can be told: a path
    File,       \* module files; dlopen gives one handle for each
    FileOf,     \* which file a name is a path of
    Order,      \* the registries, in the order in which the loader clears them
    Registers,  \* per file: the handlers module_init registers, in order
    Drops,      \* per file: the handlers module_shutdown drops, in order
    Own,        \* per registry: the keys the bot itself registers at its start
    MayFail,    \* files whose module_init may return less than 0
    Installed   \* the names in the directory of modules

\* The lists of handlers, and the list of modules.
Kinds == Range(Order)
Loaded == "modules"

\* What a node carries: a module of the list of modules, or a handler and the
\* module it is for.
ModuleEntry == [key : Name, module : File]

Hook == [kind : Kinds,
         key : {h.key : h \in UNION {Range(Registers[f]) \cup Range(Drops[f]) : f \in File}}]

HandlerEntry ==
    [key : {h.key : h \in Hook}, module : File]
    \cup [key : UNION {Range(Own[l]) : l \in Kinds}, module : {Null}]

Entry == ModuleEntry \cup HandlerEntry

\* The bot's own handlers, by list and place, and blocks of memory for them.
OwnPlace == UNION {{l} \X DOMAIN Own[l] : l \in Kinds}

IsAllocation(b) ==
    /\ b \in [OwnPlace -> Node]
    /\ \A p, q \in OwnPlace : b[p] = b[q] => p = q

\* NULL is no module, no name and no entry, the list of modules is none of the
\* registries, and the bot itself has found memory when it started.
ASSUME ModulesAssumption ==
    /\ FileOf \in [Name -> File]
    /\ MayFail \subseteq File /\ Installed \subseteq Name
    /\ Null \notin File \cup Name \cup Entry
    /\ Order \in Seq(List \ {Loaded}) /\ Order # << >>
    /\ Loaded \in List
    /\ Registers \in [File -> Seq(Hook)] /\ Drops \in [File -> Seq(Hook)]
    /\ \A l \in Kinds : Own[l] \in Seq(Range(Own[l]))
    /\ \E b \in [OwnPlace -> Node] : IsAllocation(b)

VARIABLES
    mem,        \* the pointers of every node, and the heads of the lists
    data,       \* what the node carries; Null for a free one
    refs,       \* per file, how many times it is open: dlopen counts
    toLoad,     \* what autoloadmods has still to look at
    frame,      \* what runs, and the pointers it holds
    answer      \* the answer that follows from what the loader last returned

vars == <<mem, data, refs, toLoad, frame, answer>>

Idle == [at |-> "idle"]

\* A wild pointer has been followed.
Crashed == [at |-> "crashed"]

-----------------------------------------------------------------------------
(* Nodes *)

\* malloc: which of the free blocks it is does not matter, since nothing keeps a
\* pointer to a freed one for longer than its loop.
Malloc == CHOOSE n \in Node : data[n] = Null

\* Wrong on purpose: newer handlers come first.
AddInFront(l, entry) ==
    /\ \E n \in Node : data[n] = Null
    /\ LET x == Malloc  old == mem.head[l] IN
       mem' = [mem EXCEPT !.head[l] = x,
                          !.next[x] = old,
                          !.prev = [n \in Node |-> IF n = x THEN Null
                                                   ELSE IF n = old THEN x ELSE @[n]]]
    /\ data' = [data EXCEPT ![Malloc] = entry]

\* addtrigger, addnumeric, addcommand, and initmodule's own copy of them: the
\* new node goes to the end.
AddTo(l, entry) ==
    /\ \E n \in Node : data[n] = Null
    /\ mem' = LinkToList(mem, Malloc, l)
    /\ data' = [data EXCEPT ![Malloc] = entry]

Handlers(l) == LET nodes == Chain(mem, l) IN [i \in DOMAIN nodes |-> data[nodes[i]]]

\* UnlinkListItem and free.
Drop(n, l) ==
    /\ mem' = UnlinkListItem(mem, n, l)
    /\ data' = [data EXCEPT ![n] = Null]

\* The walk of the list l meets n before the others of S.
IsFirst(n, l, S) ==
    /\ n \in S
    /\ \E i \in DOMAIN Chain(mem, l) :
          /\ n = Chain(mem, l)[i]
          /\ \A j \in 1 .. i - 1 : Chain(mem, l)[j] \notin S

\* deltrigger, delnumeric, delcommand: the first that is the module's and has
\* the key goes.
DeleteFirst(l, entry) ==
    LET hits == {n \in Range(Chain(mem, l)) : data[n] = entry} IN
    \/ hits = {} /\ UNCHANGED <<mem, data>>
    \/ \E n \in hits : IsFirst(n, l, hits) /\ Drop(n, l)

\* The nodes of modules of that name.
Named(name) == {n \in Range(Chain(mem, Loaded)) : data[n].key = name}

-----------------------------------------------------------------------------
(* The loader *)

\* unlinkmod begins: module_shutdown is called.  "then" is what to load next.
Shutdown(n, then) ==
    [at |-> "shutdown", node |-> n, i |-> 1, then |-> then]

\* dlopen, and the module joins the list.  It may fail: no such file, or not a
\* module.
initmodule(name) ==
    \/ /\ frame' = Idle
       /\ answer' = "Unable to load module"
       /\ UNCHANGED <<mem, data, refs>>
    \/ /\ AddTo(Loaded, [key |-> name, module |-> FileOf[name]])
       /\ refs' = [refs EXCEPT ![FileOf[name]] = @ + 1]
       /\ frame' = [at |-> "init", node |-> Malloc, i |-> 1]
       /\ UNCHANGED answer

\* module_init registers one handler after the other.
InitStep ==
    /\ frame.at = "init"
    /\ LET f == data[frame.node].module IN
       /\ frame.i <= Len(Registers[f])
       /\ AddTo(Registers[f][frame.i].kind,
                [key |-> Registers[f][frame.i].key, module |-> f])
    /\ frame' = [frame EXCEPT !.i = @ + 1]
    /\ UNCHANGED <<refs, toLoad, answer>>

\* It returns 0, which msg_loadmodule takes for a failure.
InitEnd ==
    /\ frame.at = "init"
    /\ frame.i = Len(Registers[data[frame.node].module]) + 1
    /\ frame' = Idle
    /\ answer' = "Unable to load module"
    /\ UNCHANGED <<mem, data, refs, toLoad>>

\* It returns -1 before it has registered anything: the module goes again.
InitFails ==
    /\ frame.at = "init"
    /\ frame.i = 1
    /\ data[frame.node].module \in MayFail
    /\ frame' = Shutdown(frame.node, Null)
    /\ answer' = "Module loaded."
    /\ UNCHANGED <<mem, data, refs, toLoad>>

\* module_shutdown drops the handlers it knows of.
ShutdownStep ==
    /\ frame.at = "shutdown"
    /\ LET f == data[frame.node].module IN
       /\ frame.i <= Len(Drops[f])
       /\ DeleteFirst(Drops[f][frame.i].kind,
                      [key |-> Drops[f][frame.i].key, module |-> f])
    /\ frame' = [frame EXCEPT !.i = @ + 1]
    /\ UNCHANGED <<refs, toLoad, answer>>

\* dlclose, and the module leaves the list of modules.  Its node is not freed,
\* but nothing points to it any more.
Unmap ==
    /\ frame.at = "shutdown"
    /\ LET f == data[frame.node].module IN
       /\ frame.i = Len(Drops[f]) + 1
       /\ refs' = [refs EXCEPT ![f] = @ - 1]
       /\ frame' = [at |-> "clear", file |-> f, k |-> 1,
                    node |-> mem.head[Order[1]], then |-> frame.then]
    /\ Drop(frame.node, Loaded)
    /\ UNCHANGED <<toLoad, answer>>

\* Wrong on purpose: the head of another list is moved.
ClearWrongHead ==
    /\ frame.at = "clear"
    /\ frame.node # Null
    /\ IF data[frame.node].module = frame.file
         THEN Drop(frame.node, Order[1])
         ELSE UNCHANGED <<mem, data>>
    /\ frame' = [frame EXCEPT !.node = mem.next[@]]
    /\ UNCHANGED <<refs, toLoad, answer>>

\* Wrong on purpose: the walk goes on only from a node it frees.
ClearStuck ==
    /\ frame.at = "clear"
    /\ frame.node # Null
    /\ IF data[frame.node].module = frame.file
         THEN Drop(frame.node, Order[frame.k]) /\ frame' = [frame EXCEPT !.node = mem.next[@]]
         ELSE UNCHANGED <<mem, data, frame>>
    /\ UNCHANGED <<refs, toLoad, answer>>

\* delnumericmodule, delctcpmodule, delusrcommandmodule, ...: a node of the
\* module is unlinked and freed, and then its next pointer is read.  Nothing is
\* allocated in between: an allocator that leaves freed blocks alone gives the
\* old pointer, one that overwrites them a wild one.
ClearStep ==
    /\ frame.at = "clear"
    /\ frame.node # Null
    /\ IF data[frame.node].module = frame.file
         THEN /\ Drop(frame.node, Order[frame.k])
              /\ \/ frame' = [frame EXCEPT !.node = mem.next[@]]
                 \/ frame' = Crashed
         ELSE /\ frame' = [frame EXCEPT !.node = mem.next[@]]
              /\ UNCHANGED <<mem, data>>
    /\ UNCHANGED <<refs, toLoad, answer>>

\* The end of one list: on to the next.
ClearNext ==
    /\ frame.at = "clear"
    /\ frame.node = Null
    /\ frame.k < Len(Order)
    /\ frame' = [frame EXCEPT !.k = @ + 1, !.node = mem.head[Order[frame.k + 1]]]
    /\ UNCHANGED <<mem, data, refs, toLoad, answer>>

\* The end of the last: back to removemodule, and from there perhaps to
\* loadmodule, which goes on.
ClearEnd ==
    /\ frame.at = "clear"
    /\ frame.node = Null
    /\ frame.k = Len(Order)
    /\ IF frame.then \in Name
         THEN initmodule(frame.then)
         ELSE frame' = Idle /\ UNCHANGED <<mem, data, refs, answer>>
    /\ UNCHANGED toLoad

\* REMOVEMODULE, the message of a user.
removemodule(name) ==
    /\ frame = Idle /\ toLoad = {}
    /\ \/ Named(name) = {} /\ frame' = Idle /\ answer' = "Module not found."
       \/ \E n \in Named(name) :
             /\ IsFirst(n, Loaded, Named(name))
             /\ frame' = Shutdown(n, Null)
             /\ answer' = "Module removed."
    /\ UNCHANGED <<mem, data, refs, toLoad>>

\* Wrong on purpose: the old copy stays.
LoadOver(name) ==
    /\ frame = Idle /\ toLoad = {}
    /\ initmodule(name)
    /\ UNCHANGED toLoad

\* LOADMODULE: a copy of that name goes first.
loadmodule(name) ==
    /\ frame = Idle /\ toLoad = {}
    /\ \/ Named(name) = {} /\ initmodule(name)
       \/ \E n \in Named(name) :
             /\ IsFirst(n, Loaded, Named(name))
             /\ frame' = Shutdown(n, name)
             /\ UNCHANGED <<mem, data, refs, answer>>
    /\ UNCHANGED toLoad

\* autoloadmods looks at the next entry of the directory.  Whether the entry is
\* taken for a directory is read from a buffer that stat, called with a name
\* relative to another directory, has not filled.
autoloadmods(name) ==
    /\ frame = Idle
    /\ name \in toLoad
    /\ toLoad' = toLoad \ {name}
    /\ \/ initmodule(name)
       \/ UNCHANGED <<mem, data, refs, frame, answer>>

-----------------------------------------------------------------------------
\* The bot's own handlers, in place before the first module is loaded.
OwnHandlers ==
    [l \in Kinds |-> [i \in DOMAIN Own[l] |-> [key |-> Own[l][i], module |-> Null]]]

\* The bot registers its own handlers, each in a block of its own.  It does not
\* matter which.
Block == CHOOSE b \in [OwnPlace -> Node] : IsAllocation(b)

BlockAt(l, i) == IF <<l, i>> \in OwnPlace THEN Block[<<l, i>>] ELSE Null

\* Whose block n is: the list and the place of a handler.
IsOwn(n) == \E p \in OwnPlace : Block[p] = n
ListOf(n) == (CHOOSE p \in OwnPlace : Block[p] = n)[1]
PlaceOf(n) == (CHOOSE p \in OwnPlace : Block[p] = n)[2]

Started ==
    [next |-> [n \in Node |-> IF IsOwn(n) THEN BlockAt(ListOf(n), PlaceOf(n) + 1) ELSE Null],
     prev |-> [n \in Node |-> IF IsOwn(n) THEN BlockAt(ListOf(n), PlaceOf(n) - 1) ELSE Null],
     head |-> [l \in List |-> BlockAt(l, 1)]]

Init ==
    /\ mem = Started
    /\ data = [n \in Node |-> IF IsOwn(n) THEN OwnHandlers[ListOf(n)][PlaceOf(n)] ELSE Null]
    /\ refs = [f \in File |-> 0]
    /\ toLoad = Installed
    /\ frame = Idle
    /\ answer = "none"

\* One turn of the loader, once it has been called.
Continue ==
    \/ InitStep
    \/ InitEnd
    \/ InitFails
    \/ ShutdownStep
    \/ Unmap
    \/ ClearStep
    \/ ClearNext
    \/ ClearEnd

Next ==
    \/ \E name \in Name : loadmodule(name) \/ removemodule(name) \/ autoloadmods(name)
    \/ Continue

Spec == Init /\ [][Next]_vars

\* The loader runs in the bot's only thread.
LiveSpec == Spec /\ WF_vars(Continue)

-----------------------------------------------------------------------------
(* Properties *)

\* Type correctness of the loader's state.
TypeOK ==
    /\ IsMemory(mem)
    /\ data \in [Node -> Entry \cup {Null}]
    /\ refs \in [File -> Nat]
    /\ toLoad \subseteq Installed
    /\ frame.at \in {"idle", "init", "shutdown", "clear", "crashed"}

\* Whatever has been loaded, has failed and was removed, every list is a list in
\* both directions, all its nodes are allocated, and no node is on two lists
\* (UnlinkListItem, LinkToList and the nodes freed in the walks of
\* delcommandmodule and its like).
WellLinked ==
    /\ TypeOK
    /\ \A l \in List : Represents(mem, l, Chain(mem, l))
    /\ \A l \in List : \A n \in Range(Chain(mem, l)) : data[n] # Null
    /\ \A l, k \in List : l # k => Range(Chain(mem, l)) \cap Range(Chain(mem, k)) = {}

\* The walks that free the nodes they stand on hold no pointer to another
\* list's node, or to a free one.
WalkOnList ==
    frame.at = "clear" /\ frame.node # Null =>
        /\ data[frame.node] # Null
        /\ frame.node \in Range(Chain(mem, Order[frame.k]))

\* dlclose comes before the loader has cleared up: once it has, no handler is
\* left whose code is gone, or whose module is not listed.
EveryHandlerMapped ==
    frame = Idle =>
        \A l \in Kinds : \A i \in DOMAIN Handlers(l) :
            LET f == Handlers(l)[i].module IN
            f # Null => /\ refs[f] > 0
                        /\ \E n \in Range(Chain(mem, Loaded)) : data[n].module = f

\* Of the module f the list l has the handlers that are among its first n, in
\* their order, and no others.
HasRegistered(f, l, n) ==
    \E place \in [{i \in 1 .. n : Registers[f][i].kind = l} -> DOMAIN Handlers(l)] :
        /\ \A i, j \in DOMAIN place : i < j => place[i] < place[j]
        /\ \A i \in DOMAIN place :
              Handlers(l)[place[i]] = [key |-> Registers[f][i].key, module |-> f]
        /\ \A k \in DOMAIN Handlers(l) :
              Handlers(l)[k].module = f => \E i \in DOMAIN place : place[i] = k

\* "remove any old copies of the module before loading the new": a module that
\* is listed has each of its handlers once, in the order of its module_init,
\* after any sequence of loads, failures and removals.
ListedIsComplete ==
    frame = Idle =>
        \A n \in Range(Chain(mem, Loaded)) : \A l \in Kinds :
            HasRegistered(data[n].module, l, Len(Registers[data[n].module]))

\* Between two commands the handlers are those of the listed modules, all of
\* them and no others but the bot's own (unlinkmod, loadmodule).
HandlersOfListed == EveryHandlerMapped /\ ListedIsComplete

\* "Module loaded." is answered for a module that is loaded.
LoadedMeansListed ==
    frame = Idle /\ answer = "Module loaded." =>
        \E i \in DOMAIN Handlers(Loaded) : Handlers(Loaded)[i].module \in File

\* The program does not follow a pointer out of freed memory.
NoCrash == frame # Crashed

\* LOADMODULE and REMOVEMODULE come to their end: no walk goes round in circles,
\* and an allocator that leaves freed nodes alone always leads out of it.
LoaderReturns == frame # Idle ~> frame \in {Idle, Crashed}

\* The registries, as pointers and freed nodes, behave like the sequences of
\* Registry: calls in the order of registration, a removal that takes one
\* handler out and leaves the order of the others, the bot's own handlers for
\* ever.  Each step of the loader is one registration, one removal or none.
R == INSTANCE Registry WITH
        Kind <- Kinds,
        Handler <- Entry,
        Core <- UNION {Range(OwnHandlers[l]) : l \in Kinds},
        Initially <- OwnHandlers,
        table <- [l \in Kinds |-> Handlers(l)]

RegistrySpec == R!Spec

=============================================================================
