--------------------------- MODULE SymbolCheckers ---------------------------
(***************************************************************************)
(* The checkers that look for calls of imported functions: CWE243, 332,    *)
(* 367, 426, 676 and 782.  p.config has the functions named in config.json.*)
(* A warning is identified by the checker and its addresses.               *)
(***************************************************************************)
EXTENDS FunctionGraphs

Warning(name, addresses) == [name |-> name, addresses |-> addresses]

find_symbol(p, name) == name \in p.symbols
get_symbol_map(p, names) == names \cap p.symbols

get_calls_to_symbols(p, f, symbols) ==
  UNION {{JmpTid(p, b, k) :
            k \in {k \in DOMAIN p.blks[b].jmps :
                     p.blks[b].jmps[k].kind = "ExternCall" /\ p.blks[b].jmps[k].target \in symbols}} :
           b \in BlocksOf(p, f)}

\* Mutant: the search goes on behind another call of the source.
SearchPastSources(p, node, source, sink) ==
  LET graph == GraphWithoutCalls(p)
      IsExtern(e, symbol) ==
        e[2] = "ExternCallStub" /\ FirstJmp(p, e[1][2]).kind = "ExternCall"
          /\ FirstJmp(p, e[1][2]).target = symbol
      visited == Reach({node}, {e \in graph : ~IsExtern(e, sink)})
  IN  {JmpTid(p, e[1][2], 1) : e \in {e \in graph : e[1] \in visited /\ IsExtern(e, sink)}}

\* The search stops at the first sink call it meets: any of these.  Behind
\* another call of the source it does not go on.
is_sink_call_reachable_from_source_call(p, node, source, sink) ==
  LET graph == GraphWithoutCalls(p)
      IsExtern(e, symbol) ==
        e[2] = "ExternCallStub" /\ FirstJmp(p, e[1][2]).kind = "ExternCall"
          /\ FirstJmp(p, e[1][2]).target = symbol
      visited == Reach({node}, {e \in graph : ~IsExtern(e, sink) /\ ~IsExtern(e, source)})
  IN  {JmpTid(p, e[1][2], 1) : e \in {e \in graph : e[1] \in visited /\ IsExtern(e, sink)}}

-----------------------------------------------------------------------------
(* CWE243: chroot without chdir *)

f_calls_chdir_and_priviledge_dropping_func(p, f) ==
  /\ "chdir" \in DOMAIN callees(p, f)
  /\ DOMAIN callees(p, f) \cap get_symbol_map(p, p.config.priviledge_dropping_functions) # {}

InsecureChroot(p, b) ==
  \/ ~find_symbol(p, "chdir")
  \/ /\ is_sink_call_reachable_from_source_call(p, Start(FirstJmp(p, b).return), "chroot", "chdir") = {}
     /\ ~f_calls_chdir_and_priviledge_dropping_func(p, p.blks[b].sub)

check_cwe_243(p) ==
  IF ~find_symbol(p, "chroot") THEN {}
  ELSE {Warning("CWE243", <<JmpTid(p, b, 1)>>) :
          b \in {b \in DOMAIN p.blks : "chroot" \in get_call_targets(p, b) /\ InsecureChroot(p, b)}}

-----------------------------------------------------------------------------
(* CWE367: a check whose result may be outdated when it is used *)

\* Block ends with a call of the source from which a call of the sink is reachable.
SourceCalls(p, pair) ==
  {b \in DOMAIN p.blks :
     /\ {pair[1], pair[2]} \subseteq p.symbols
     /\ pair[1] \in get_call_targets(p, b)
     /\ is_sink_call_reachable_from_source_call(p, Start(FirstJmp(p, b).return), pair[1], pair[2]) # {}}

\* The possible results: one warning per pair and source call, with the block
\* after the call as its first address.
check_cwe_367(p) ==
  LET found == UNION {{<<pair, b>> : b \in SourceCalls(p, pair)} : pair \in p.config.pairs_367}
      Sinks(x) == is_sink_call_reachable_from_source_call(p, Start(FirstJmp(p, x[2]).return),
                                                          x[1][1], x[1][2])
  IN  {{Warning("CWE367", <<Tid(FirstJmp(p, x[2]).return, 0), pick[x]>>) : x \in found} :
         pick \in {pick \in [found -> UNION {Sinks(x) : x \in found}] : \A x \in found : pick[x] \in Sinks(x)}}

-----------------------------------------------------------------------------
(* CWE332, CWE426, CWE676, CWE782 *)

check_cwe_332(p) ==
  {Warning("CWE332", <<>>) :
     pair \in {pair \in p.config.pairs_332 : find_symbol(p, pair[2]) /\ ~find_symbol(p, pair[1])}}

check_cwe_426(p) ==
  LET privilege_changing_symbols == get_symbol_map(p, p.config.symbols_426)
      system_symbol == get_symbol_map(p, {"system"})
  IN  {Warning("CWE426", <<Tid(p.entry[f], 0)>>) :
         f \in {f \in DOMAIN p.entry : /\ get_calls_to_symbols(p, f, system_symbol) # {}
                                       /\ get_calls_to_symbols(p, f, privilege_changing_symbols) # {}}}

CallWarnings(p, name, symbols) ==
  {Warning(name, <<t>>) :
     t \in UNION {get_calls_to_symbols(p, f, get_symbol_map(p, symbols)) : f \in DOMAIN p.entry}}

check_cwe_676(p) == CallWarnings(p, "CWE676", p.config.symbols_676)
check_cwe_782(p) == CallWarnings(p, "CWE782", {"ioctl"})

\* What the module may return.
SymbolChecks(p, module) ==
  CASE module = "CWE243" -> {check_cwe_243(p)}
    [] module = "CWE332" -> {check_cwe_332(p)}
    [] module = "CWE367" -> check_cwe_367(p)
    [] module = "CWE426" -> {check_cwe_426(p)}
    [] module = "CWE676" -> {check_cwe_676(p)}
    [] module = "CWE782" -> {check_cwe_782(p)}

SymbolModules == {"CWE243", "CWE332", "CWE367", "CWE426", "CWE676", "CWE782"}
==============================================================================
