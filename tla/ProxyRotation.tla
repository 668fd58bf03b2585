--------------------------- MODULE ProxyRotation ---------------------------
(***************************************************************************)
(* The proxies outgoing requests are sent through (upstream/proxy.go).      *)
(* NextProxy is called by every goroutine that talks to the upstream; it    *)
(* loads data/proxies.json anew when its modification time is not the one   *)
(* remembered.  The time is an atomic pointer and the index an atomic       *)
(* counter, but the list between them is a plain slice: an array and a      *)
(* length, two words that are written in either order while others read.    *)
(*                                                                         *)
(* The file is external: administrators replace it, and each replacement    *)
(* has a modification time of its own.                                      *)
(***************************************************************************)
EXTENDS Naturals, Sequences

CONSTANTS
    Callers,        \* goroutines that call NextProxy at once
    Lists,          \* lists of proxies the file may hold
    Missing,        \* content: there is no file
    Broken,         \* content: not a JSON array of strings
    Garbage,        \* what is read from memory past the end of an array
    MaxEdits,       \* bound: replacements of the file
    IndexCycle      \* the index counts modulo this multiple of every length

ASSUME ProxyAssumption ==
    /\ Lists \subseteq Seq(STRING)
    /\ \A list \in Lists : list # <<>> => IndexCycle % Len(list) = 0
    /\ MaxEdits \in Nat
    /\ IndexCycle \in Nat \ {0}

VARIABLES
    contents,       \* the contents the file has had, the present one last
    cache,          \* ProxyManager: the time remembered, the slice's two words
    index,          \* ProxyManager.index
    caller,         \* what each goroutine in NextProxy has got to
    picked          \* list and position of the last proxied call, odd or even (history)

proxyVars == <<contents, cache, index, caller, picked>>

-----------------------------------------------------------------------------
\* The modification time of the file is the number of the version it holds.
ModTime == Len(contents)
File == contents[ModTime]

\* The slice a reader sees: the first elements of its array, or what lies behind.
Slice(array, length) ==
    [i \in 1..length |-> IF i <= Len(array) THEN array[i] ELSE Garbage]

Idle == [pc |-> "idle", time |-> 0, list |-> <<>>, words |-> {}]

ProxyTypeOK ==
    /\ contents \in Seq(Lists \cup {Missing, Broken})
    /\ cache.time \in 0..ModTime
    /\ cache.array \in Lists \cup {<<>>}
    /\ cache.length \in Nat
    /\ index \in 0..IndexCycle - 1
    /\ \A g \in Callers :
         /\ caller[g].pc \in {"idle", "cached", "read", "stamp", "assign", "pick", "direct"}
         /\ caller[g].words \subseteq {"array", "length"}
         /\ caller[g].pc = "pick" => caller[g].list # <<>>     \* it divides by the length

ProxyInit ==
    /\ contents \in {<<content>> : content \in Lists \cup {Missing, Broken}}
    /\ cache = [time |-> 0, array |-> <<>>, length |-> 0]
    /\ index = 0
    /\ caller = [g \in Callers |-> Idle]
    /\ picked = [list |-> <<>>, at |-> 0, odd |-> FALSE]

-----------------------------------------------------------------------------
\* A variation: an empty list is not told from the others.
Loaded_unchecked(g, list) ==
    caller' = [caller EXCEPT ![g] = [Idle EXCEPT !.pc = "pick", !.list = list]]

\* The list loadProxies returns; without one the call goes direct.
Loaded(g, list) ==
    caller' = [caller EXCEPT ![g] =
                 [Idle EXCEPT !.pc = IF list = <<>> THEN "direct" ELSE "pick", !.list = list]]

\* os.Stat, and the time compared with the one remembered.
Stat(g) ==
    /\ caller[g].pc \in {"idle", "direct"}
    /\ \/ /\ File = Missing
          /\ Loaded(g, <<>>)
       \/ /\ File # Missing
          /\ caller' = [caller EXCEPT ![g] =
               [Idle EXCEPT !.pc = IF cache.time = ModTime THEN "cached" ELSE "read",
                            !.time = ModTime]]
    /\ UNCHANGED <<contents, cache, index, picked>>

ReadCached(g) ==
    /\ caller[g].pc = "cached"
    /\ Loaded(g, Slice(cache.array, cache.length))
    /\ UNCHANGED <<contents, cache, index, picked>>

\* os.ReadFile and json.Unmarshal: the file may be another one by now.
ReadFile(g) ==
    /\ caller[g].pc = "read"
    /\ \/ /\ File \in {Missing, Broken}
          /\ Loaded(g, <<>>)
       \/ /\ File \notin {Missing, Broken}
          /\ caller' = [caller EXCEPT ![g].pc = "stamp", ![g].list = File]
    /\ UNCHANGED <<contents, cache, index, picked>>

\* A variation: the time of the file at the end of the load is remembered.
StoreTime_restat(g) ==
    /\ caller[g].pc = "stamp"
    /\ cache' = [cache EXCEPT !.time = ModTime]
    /\ caller' = [caller EXCEPT ![g].pc = "assign", ![g].words = {"array", "length"}]
    /\ UNCHANGED <<contents, index, picked>>

StoreTime(g) ==
    /\ caller[g].pc = "stamp"
    /\ cache' = [cache EXCEPT !.time = caller[g].time]
    /\ caller' = [caller EXCEPT ![g].pc = "assign", ![g].words = {"array", "length"}]
    /\ UNCHANGED <<contents, index, picked>>

\* A variation: a := declares a list of its own.
StoreWord_shadowed(g, word) ==
    /\ caller[g].pc = "assign"
    /\ word \in caller[g].words
    /\ Loaded(g, caller[g].list)
    /\ UNCHANGED <<contents, cache, index, picked>>

\* proxyMgr.proxies = list, a word at a time.
StoreWord(g, word) ==
    /\ caller[g].pc = "assign"
    /\ word \in caller[g].words
    /\ cache' = IF word = "array" THEN [cache EXCEPT !.array = caller[g].list]
                ELSE [cache EXCEPT !.length = Len(caller[g].list)]
    /\ IF caller[g].words = {word} THEN Loaded(g, caller[g].list)
       ELSE caller' = [caller EXCEPT ![g].words = @ \ {word}]
    /\ UNCHANGED <<contents, index, picked>>

\* A variation: every call starts from the front of the list.
Pick_first(g) ==
    /\ caller[g].pc = "pick"
    /\ picked' = [list |-> caller[g].list, at |-> 1, odd |-> ~picked.odd]
    /\ caller' = [caller EXCEPT ![g] = Idle]
    /\ UNCHANGED <<contents, cache, index>>

Pick(g) ==
    /\ caller[g].pc = "pick"
    /\ index' = (index + 1) % IndexCycle
    /\ picked' = [list |-> caller[g].list, at |-> 1 + (index % Len(caller[g].list)),
                  odd |-> ~picked.odd]
    /\ caller' = [caller EXCEPT ![g] = Idle]
    /\ UNCHANGED <<contents, cache>>

\* The administrator replaces, breaks, removes or restores the file.
EditFile ==
    /\ ModTime =< MaxEdits
    /\ \E content \in Lists \cup {Missing, Broken} : contents' = Append(contents, content)
    /\ UNCHANGED <<cache, index, caller, picked>>

ProxyNext ==
    \/ \E g \in Callers :
         \/ Stat(g) \/ ReadCached(g) \/ ReadFile(g) \/ StoreTime(g) \/ Pick(g)
         \/ \E word \in {"array", "length"} : StoreWord(g, word)
    \/ EditFile

ProxySpec == ProxyInit /\ [][ProxyNext]_proxyVars

-----------------------------------------------------------------------------
\* A time remembered after all loads have ended belongs to the list remembered with
\* it, so that the next call uses the file's list, whatever was replaced during a
\* load.  (The list of a time that has passed is loaded again anyway.)
CacheIsCurrent ==
    (\A g \in Callers : caller[g].pc \notin {"stamp", "assign"}) /\ cache.time = ModTime
    => Slice(cache.array, cache.length) = File

Loads(g) == caller[g].pc \in {"read", "stamp", "assign"}

\* As long as no two loads overlap, the list remembered is the file's.  (Two that do
\* can leave the list of the one under the time of the other, for good.)
SoleLoadIsCurrent ==
    [](\A g, h \in Callers : Loads(g) /\ Loads(h) => g = h) => []CacheIsCurrent

\* As long as nobody reads the remembered list, or loads another, while it is being
\* replaced, a call uses a list the file has held, and goes direct only if the file
\* was missing, empty or broken at some time (proxy.go:19).  (A call that comes in
\* between the time and the list, or between the words of the list, finds no list,
\* an old one, or one that runs past the end of its array.)
UsesFilesList ==
    [](\A g, h \in Callers :
          caller[g].pc \in {"stamp", "assign"} /\ (Loads(h) \/ caller[h].pc = "cached") => g = h)
    => [](\A g \in Callers :
             /\ caller[g].pc = "pick" => \E i \in 1..ModTime : contents[i] = caller[g].list
             /\ caller[g].pc = "direct" =>
                    \E i \in 1..ModTime : contents[i] \in {Missing, Broken, <<>>})

\* proxy.go:55 "NextProxy returns the next proxy URL in round-robin order": two
\* requests in a row that use one list of several go through different entries of it.
RoundRobin ==
    [][picked' # picked /\ picked'.list = picked.list /\ Len(picked.list) > 1
       => picked'.at = 1 + (picked.at % Len(picked.list))]_picked
=============================================================================
