------------------------------ MODULE MCCaller ------------------------------
(***************************************************************************)
(* Arguments and small programs for Caller: all selections of modules on a *)
(* program without findings, control flow graphs for --cfg-stats, calls of *)
(* imported functions for CWE243 and CWE367, frees in a function and its   *)
(* callees for CWE416.                                                     *)
(***************************************************************************)
EXTENDS CallerExecutions

Args(partial, debug, stats) ==
  [module_versions |-> FALSE, debug |-> debug, cfg_stats |-> stats, partial |-> partial,
   statistics |-> FALSE, quiet |-> FALSE]
Partial(module) == Args({module}, "no", FALSE)

Config ==
  [priviledge_dropping_functions |-> {"setuid"}, pairs_367 |-> {<<"access", "open">>},
   pairs_332 |-> {<<"srand", "rand">>}, symbols_426 |-> {"setuid"}, symbols_676 |-> {"strcpy"}]

Blk(f, defs, jmps) == [sub |-> f, defs |-> defs, jmps |-> jmps, artificial |-> None]
Branch(t) == [kind |-> "Branch", target |-> t]
CBranch(t) == [kind |-> "CBranch", target |-> t]
Return == [kind |-> "Return"]
CallTo(f, t, as, renaming) ==
  [kind |-> "Call", target |-> f, return |-> t, args |-> as, renaming |-> renaming]
Extern(s, t, as) == [kind |-> "ExternCall", target |-> s, return |-> t, args |-> as]
CallInd(t, as) == [kind |-> "CallInd", return |-> t, args |-> as]
CallOther(t) == [kind |-> "CallOther", return |-> t]
Use(ids) == [at |-> ids]
NoAccess == [at |-> None]

Prog(entry, blocks, symbols, ids, lkm) ==
  [entry |-> entry, blks |-> blocks, symbols |-> symbols, ids |-> ids, is_lkm |-> lkm, config |-> Config,
   always_include_full_path_to_free_site |-> lkm]

-----------------------------------------------------------------------------
(* Arguments *)

Tiny(lkm) ==
  Prog([f |-> 1], [b \in {1} |-> Blk("f", <<>>, <<Return>>)], {"rand", "ioctl"}, <<>>, lkm)

Selections ==
  {None, {""}, {"CWE999"}, {"", "CWE999"}} \cup {{m} : m \in Range(get_modules)}
    \cup {{"CWE78", "CWE332"}, {"CWE416", "CWE676"}, {"CWE243", "CWE782"}, {"CWE560", "Memory"}}

ArgInputs ==
  {[args |-> [module_versions |-> v, debug |-> d, cfg_stats |-> c, partial |-> m,
              statistics |-> s, quiet |-> q],
    p |-> Tiny(lkm)] :
     v \in BOOLEAN, d \in {"no", "ir", "cg", "cfg", "pi"}, c \in BOOLEAN, m \in Selections,
     s \in BOOLEAN, q \in BOOLEAN, lkm \in BOOLEAN}

-----------------------------------------------------------------------------
(* Control flow graphs: four blocks of f, and g, which may be recursive *)

Ends(i) ==
  {<<CBranch((i % 4) + 1), Branch(((i + 1) % 4) + 1)>>, <<CBranch(1), Branch(4)>>,
   <<Branch((i % 4) + 1)>>,
   <<IF i = 3 THEN CallOther(((i + 1) % 4) + 1) ELSE CallTo("g", ((i + 1) % 4) + 1, <<>>, None)>>,
   <<[kind |-> "BranchInd", targets |-> {2, 3, i}]>>, <<Return>>}
FourBlocks(e, eg) ==
  [b \in 1..6 |-> IF b <= 4 THEN Blk("f", <<NoAccess>>, e[b])
                  ELSE IF b = 5 THEN Blk("g", <<>>, eg) ELSE Blk("g", <<>>, <<Return>>)]
GEnds == {<<Extern("ioctl", 6, <<>>)>>, <<CallTo("f", 6, <<>>, None)>>}
CfgInputs ==
  {[args |-> Args(None, "no", TRUE),
    p |-> Prog([f |-> 1, g |-> 5], FourBlocks(<<e1, e2, e3, e4>>, eg), {"ioctl", "rand"}, <<>>, FALSE)] :
     e1 \in Ends(1), e2 \in Ends(2), e3 \in Ends(3), e4 \in Ends(4), eg \in GEnds}

\* Three functions that call each other.
Chain(a, b, c) ==
  [i \in 1..6 |->
     LET f == CASE i <= 2 -> "f" [] i <= 4 -> "g" [] OTHER -> "h"
         t == CASE i <= 2 -> a[i] [] i <= 4 -> b[i - 2] [] OTHER -> c[i - 4]
     IN  IF t = None THEN Blk(f, <<>>, <<Return>>)
         ELSE Blk(f, <<>>, <<IF t = "ioctl" THEN Extern(t, i, <<>>) ELSE CallTo(t, i, <<>>, None)>>)]
ChainInputs ==
  {[args |-> Args(None, "no", TRUE),
    p |-> Prog([f |-> 1, g |-> 3, h |-> 5], Chain(a, b, c), {"ioctl"}, <<>>, FALSE)] :
     a \in {<<"g", "h">>, <<"g", "g">>, <<"ioctl", "ioctl">>}, b \in {<<"h", None>>, <<"f", "h">>, <<None, None>>},
     c \in {<<"f", "g">>, <<"ioctl", None>>, <<"h", "ioctl">>}}

-----------------------------------------------------------------------------
(* Calls of imported functions: a source call, a loop and two later calls *)

Later(b, t) ==
  {<<Branch(t)>>, <<CBranch(2), Branch(t)>>, <<CBranch(b + 1), Branch(t)>>,
   <<CallTo("g", t, <<>>, None)>>, <<CallOther(t)>>}
CallBlocks(s1, e2, s3, s4, r4, eg) ==
  [b \in 1..7 |->
     CASE b = 1 -> Blk("f", <<>>, <<Extern(s1, 2, <<>>)>>)
       [] b = 2 -> Blk("f", <<>>, e2)
       [] b = 3 -> Blk("f", <<>>, <<Extern(s3, 4, <<>>)>>)
       [] b = 4 -> Blk("f", <<>>, <<Extern(s4, r4, <<>>)>>)
       [] b = 5 -> Blk("f", <<>>, <<Return>>)
       [] b = 6 -> Blk("g", <<>>, eg)
       [] b = 7 -> Blk("g", <<>>, <<Return>>)]
CallInputs(module, names) ==
  {[args |-> Partial(module),
    p |-> Prog([f |-> 1, g |-> 6], CallBlocks(s1, e2, s3, s4, r4, eg), names, <<>>, FALSE)] :
     s1 \in names, e2 \in Later(2, 4), s3 \in names, s4 \in names, r4 \in {1, 2, 5},
     eg \in {<<Branch(6)>>, <<Extern(CHOOSE n \in names : TRUE, 7, <<>>)>>}}

-----------------------------------------------------------------------------
(* Frees.  Objects: 1 of f, 2 a parameter of g, 3 created in g, 4 the same *)
(* as f gets it from the call in block 1, 5 not unique, 6 with parent 7,   *)
(* 8 a parameter of h, 9 created by the call in block 1.                   *)

Id(tid, hints, parent, unique) == [tid |-> tid, hints |-> hints, parent |-> parent, unique |-> unique]
Ids ==
  <<Id(1, <<>>, None, TRUE), Id(2, <<>>, None, TRUE), Id(3, <<>>, None, TRUE), Id(3, <<Tid(1, 1)>>, None, TRUE),
    Id(5, <<>>, None, FALSE), Id(6, <<>>, 7, TRUE), Id(7, <<>>, None, TRUE), Id(8, <<>>, None, TRUE),
    Id(Tid(1, 1), <<>>, None, TRUE)>>

Renaming(to2) == [id \in {2, 3} |-> IF id = 2 THEN to2 ELSE {4}]
CallRenamings == {None, Renaming({1}), Renaming({1, 4}), Renaming({1, 5}), Renaming({6, 7}), Renaming({9, 1})}
Second ==
  {<<CBranch(1), Branch(3)>>, <<Extern("free", 3, <<{1}>>)>>, <<Extern("free", 1, <<{1, 5}>>)>>,
   <<Extern("free", 3, <<{4}>>)>>, <<Extern("puts", 3, <<None, {4}>>)>>, <<CallInd(3, <<{1}>>)>>, <<CallOther(3)>>,
   <<CallTo("g", 3, <<{1}>>, Renaming({1}))>>}
GStart ==
  {<<Extern("free", 5, <<{2}>>)>>, <<Extern("free", 5, <<{3}>>)>>, <<Extern("free", 5, <<{2, 3}>>)>>,
   <<Extern("free", 5, <<>>)>>, <<CallTo("h", 5, <<>>, [id \in {8} |-> {2}])>>}
GEnd == {<<Branch(6)>>, <<CBranch(4), Branch(6)>>, <<CBranch(7), Branch(6)>>, <<CallOther(6)>>}
FreeBlocks(renaming, args1, use, second, gstart, guse, gend) ==
  [b \in 1..6 \cup JmpTargets(gend[1]) \cup (IF gstart[1].kind = "Call" THEN {8, 9} ELSE {}) |->
     CASE b = 1 -> Blk("f", <<>>, <<CallTo("g", 2, args1, renaming)>>)
       [] b = 2 -> Blk("f", <<Use(use)>>, second)
       [] b = 3 -> Blk("f", <<Use({1})>>, <<Return>>)
       [] b = 4 -> Blk("g", <<>>, gstart)
       [] b = 5 -> Blk("g", <<Use(guse)>>, gend)
       [] b = 6 -> Blk("g", <<>>, <<Return>>)
       [] b = 7 -> Blk("g", <<>>, <<CallTo("g", 6, <<{2}>>, [id \in {2, 3} |-> {id}])>>)
       [] b = 8 -> Blk("h", <<>>, <<Extern("free", 9, <<{8}>>)>>)
       [] b = 9 -> Blk("h", <<>>, <<Return>>)]
FreeInput(renaming, args1, use, second, gstart, guse, gend, full) ==
  [args |-> Partial("CWE416"),
   p |-> Prog(IF gstart[1].kind = "Call" THEN [f |-> 1, g |-> 4, h |-> 8] ELSE [f |-> 1, g |-> 4],
              FreeBlocks(renaming, args1, use, second, gstart, guse, gend), {"free", "puts"}, Ids, full)]

\* All that the caller may do after the call, and all that the callee may do.
FreeInputs ==
  {FreeInput(renaming, <<>>, use, second, <<Extern("free", 5, <<{2, 3}>>)>>, None, <<Branch(6)>>, FALSE) :
     renaming \in CallRenamings, use \in {None, {1}, {4}, {6}}, second \in Second}
    \cup
  {FreeInput(renaming, as, use, second, gstart, guse, gend, use = {4}) :
     renaming \in {Renaming({1}), Renaming({1, 4})}, as \in {<<>>, <<{1}>>}, use \in {None, {4}},
     second \in {<<CBranch(1), Branch(3)>>, <<Extern("free", 1, <<{1, 5}>>)>>,
                <<CallTo("g", 3, <<{1}>>, Renaming({1}))>>},
     gstart \in GStart, guse \in {None, {2}}, gend \in GEnd}

MCInputs ==
  ArgInputs \cup CfgInputs \cup ChainInputs \cup CallInputs("CWE367", {"access", "open", "puts"})
    \cup CallInputs("CWE243", {"chroot", "chdir", "setuid"}) \cup CallInputs("CWE243", {"chroot", "setuid"})
    \cup FreeInputs

==============================================================================
