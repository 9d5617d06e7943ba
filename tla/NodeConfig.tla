----------------------------- MODULE NodeConfig ------------------------------
(***************************************************************************)
(* How a node is set up: main() and the configurations it starts with, the *)
(* settings of connections that CEPDispatch takes from its document, and   *)
(* the plug-ins that are opened for a node and the functions they offer.   *)
(*                                                                         *)
(* A text of an attribute is a word, or a number with a unit behind it;    *)
(* the document is the attributes of the first element of each name, and   *)
(* the connectors with the elements inside of them.                        *)
(***************************************************************************)
EXTENDS Integers, Sequences, SequencesExt, FiniteSetsExt, Functions, TLC

Word(w)         == [word |-> w, n |-> 0, unit |-> ""]
Number(n, unit) == [word |-> "", n |-> n, unit |-> unit]
EmptyText == Word("")

K == 1024
M == 1024 * 1024
ShortLimit == 65536
IntLimit   == 2147483647 \* (stands for all numbers of an unsigned int)
UnitOf == ("" :> 1) @@ ("K" :> K) @@ ("M" :> M) @@ ("G" :> 1024 * M)

-----------------------------------------------------------------------------
(* ConnConfig: a map of texts.                                             *)

\* cstr2nbr(): what is no plain number, or beyond the type's limit, is the default.
NumberOf(text, limit, default) ==
  IF text.word = "" /\ text.unit = "" /\ text.n < limit THEN text.n ELSE default

\* The first value of a name stays.
set_value(dict, name, text) == dict @@ (name :> text)

get_size(dict, name, default) ==
  IF name \in DOMAIN dict THEN dict[name].n * UnitOf[dict[name].unit] ELSE default

get_value(dict, name, limit, default) ==
  IF name \in DOMAIN dict THEN NumberOf(dict[name], limit, default) ELSE default

\* Other words than these two are as good as none.
get_bool(dict, name, default) ==
  IF name \in DOMAIN dict /\ dict[name].word \in {"true", "false"}
  THEN dict[name].word = "true" ELSE default

-----------------------------------------------------------------------------
(* CEPDispatch: the texts of its document, and what the servers and        *)
(* clients it makes are built with.                                        *)

WITHOUT_FILECACHE == 0
DEFAULT_MASTERPORT == 3389

\* Builder::reset() of clients.
ResetClient ==
  [localid |-> 0, pktSize |-> 8 * K, compress |-> FALSE, level |-> 1, encrypt |-> FALSE,
   bufMode |-> WITHOUT_FILECACHE, maxFileSize |-> 50 * M, maxMemBufSize |-> 10 * M,
   properSize |-> 131072, maxBufCount |-> 4]

\* Builder::reset() of servers.
ResetServer == [port |-> 3389] @@ ResetClient

Dispatcher == [dict |-> <<>>, server |-> ResetServer, client |-> ResetClient, matrix |-> {}]

resetConfig(c) ==
  [c EXCEPT !.dict = <<>>, !.server = ResetServer, !.client = ResetClient, !.matrix = {}]

\* Which attribute of which element goes under which name.  (The number of
\* buffers is taken from the text of the level.)
ReadAttributes ==
  {<<"localpn", "id", "localpnid">>, <<"master", "ip", "MASTERIP">>,
   <<"master", "port", "MASTERPORT">>, <<"ztpattr", "compresslevel", "maxbufcount">>}
  \cup {<<"ztpattr", name, name>> : name \in {"bufmode", "propersize", "maxmembufsize",
          "maxfilesize", "pkgsize", "encrypt", "compress", "compresslevel"}}

\* An attribute that is not there reads as the default, the empty text.
attribute(doc, element, name) ==
  IF element \in DOMAIN doc.elements /\ name \in DOMAIN doc.elements[element]
  THEN doc.elements[element][name] ELSE EmptyText

\* The pairs of a connector; one of another name is read with node 0.
PairsOf(connector) ==
  LET pnid == IF connector.name = "connector" THEN NumberOf(connector.serverpn, IntLimit, 0) ELSE 0 IN
  {<<pnid % ShortLimit, NumberOf(inside.id, ShortLimit, 0)>> : inside \in {e \in connector.inside :
     e.name = "clientpn" /\ e.id # EmptyText}}

reload_metadata(c, doc) ==
  LET read == {a \in ReadAttributes : attribute(doc, a[1], a[2]) # EmptyText} IN
  [resetConfig(c) EXCEPT
     !.dict = FoldSet(LAMBDA a, dict : set_value(dict, a[3], attribute(doc, a[1], a[2])), @, read),
     !.matrix = UNION {PairsOf(doc.connectors[i]) : i \in DOMAIN doc.connectors}]

\* What both builders are given: a size too small, or a level there is none
\* of, leaves what the builder has.
Settings(b, dict, localid) ==
  LET Size(name)    == get_size(dict, name, 0)
      Above(name, least, old) == IF Size(name) > least THEN Size(name) ELSE old
      level == get_value(dict, "compresslevel", IntLimit, 0)
      count == get_value(dict, "maxbufcount", IntLimit, 0)
  IN [b EXCEPT
        !.localid = localid,
        !.maxMemBufSize = Above("maxmembufsize", M, @),
        !.bufMode = IF get_value(dict, "bufmode", IntLimit, 0) = 1 THEN 1 ELSE @,
        !.properSize = Above("propersize", 131072, @),
        !.maxFileSize = Above("maxfilesize", 5 * M, @),
        !.pktSize = Above("pkgsize", 8 * K, @),
        !.encrypt = get_bool(dict, "encrypt", FALSE),
        !.compress = get_bool(dict, "compress", FALSE),
        !.level = IF level \in 1 .. 9 THEN level ELSE @,
        !.maxBufCount = IF count > 2 \/ count < 100 THEN count ELSE @]

initConfig(c, localid) ==
  [c EXCEPT !.server = [Settings(@, c.dict, localid) EXCEPT
                          !.port = get_value(c.dict, "MASTERPORT", ShortLimit, DEFAULT_MASTERPORT)],
            !.client = Settings(@, c.dict, localid)]

\* After any documents the settings are those of the last one: nothing of the
\* others is left, servers and clients agree, the node has its number, and
\* every size is the builder's own or larger than the least one.
Configures(docs, localid) ==
  LET last == initConfig(reload_metadata(Dispatcher, Last(docs)), localid)
      c    == initConfig(FoldLeft(reload_metadata, Dispatcher, docs), localid)
  IN /\ c = last
     /\ \A name \in DOMAIN c.client : c.server[name] = c.client[name]
     /\ c.client.localid = localid
     /\ c.client.level \in 1 .. 9 /\ c.client.bufMode \in {0, 1}
     /\ c.client.pktSize >= 8 * K /\ c.client.properSize >= 131072
     /\ c.client.maxMemBufSize > M /\ c.client.maxFileSize > 5 * M
     /\ \A pair \in c.matrix : \E i \in DOMAIN Last(docs).connectors :
          \E e \in Last(docs).connectors[i].inside :
            e.name = "clientpn" /\ NumberOf(e.id, ShortLimit, 0) = pair[2]

-----------------------------------------------------------------------------
(* main(): of a document it needs that the file can be read ("file"), has  *)
(* a root ("root"), the element looked for ("found"), and is taken ("ok"). *)

\* The calls that start the program, each with what it needs of the world.
\* Start() may fail to listen, startup() to open what it runs.
Calls(world) ==
  <<[call |-> "config_metadata::reload", works |-> world.event_type = "ok"],
    [call |-> "CEPDispatch::reload",     works |-> world.comm_u \in {"found", "ok"}],
    [call |-> "CEPDispatch::initConfig", works |-> TRUE],
    [call |-> "CEPDispatch::Start",      works |-> world.listens],
    [call |-> "pn::init",                works |-> world.cep_config # "missing"],
    [call |-> "pn::reload",              works |-> world.cep_config = "ok"],
    [call |-> "pn::startup",             works |-> world.opens]>>

\* The calls that worked, up to the first that does not, after which main()
\* returns; otherwise it goes on for ever.  From a server it loads nothing (yet).
main(world) ==
  LET calls == Calls(world)
      works == {i \in 0 .. Len(calls) : \A j \in 1 .. i : calls[j].works}
      Ends(done) == [done |-> done, runs |-> FALSE]
  IN IF world.argc < 3 \/ ~world.ini THEN Ends({})
     ELSE IF world.http THEN [done |-> {}, runs |-> TRUE]
     ELSE [done |-> {calls[i].call : i \in 1 .. Max(works)}, runs |-> Max(works) = Len(calls)]

\* A program that runs has done all, or nothing at all; nodes connect only with
\* their events and connections known, and run processing elements only when
\* connected.
StartsWhole(world) ==
  LET m == main(world)
      all == {Calls(world)[i].call : i \in 1 .. 7}
      Before(first, then) == then \in m.done => first \in m.done
  IN /\ m.runs => m.done \in {{}, all}
     /\ m.done = all => m.runs
     /\ Before("config_metadata::reload", "CEPDispatch::Start")
     /\ Before("CEPDispatch::initConfig", "CEPDispatch::Start")
     /\ Before("CEPDispatch::Start", "pn::startup")
     /\ Before("pn::reload", "pn::startup")

-----------------------------------------------------------------------------
(* Plug-ins.  opened counts what dlopen() did not get back by dlclose(); a *)
(* handler is the file it has open, or none, and a factory has a handler   *)
(* by file.  present are the files that can be opened.                     *)

NoFile == ""
NoPlugins == [opened |-> <<>>, handler |-> NoFile, m |-> <<>>,
              plugin_funcs |-> <<>>, id_map_idx |-> <<>>]

Opened(s, file) == IF file \in DOMAIN s.opened THEN s.opened[file] ELSE 0
Count(s, file, d) == (file :> Opened(s, file) + d) @@ s.opened

close(s) ==
  IF s.handler = NoFile THEN s
  ELSE [s EXCEPT !.opened = Count(s, s.handler, -1), !.handler = NoFile]

\* Another file is closed first, even if the new one cannot be opened.
open(s, file, present) ==
  LET closed == close(s) IN
  IF s.handler = file THEN s
  ELSE IF ~present THEN closed
  ELSE [closed EXCEPT !.opened = Count(closed, file, 1), !.handler = file]

\* A file is opened by a handler of its own, once.
add_dlhandler(s, file, present) ==
  IF file \in DOMAIN s.m \/ ~present THEN s
  ELSE [s EXCEPT !.m = @ @@ (file :> file), !.opened = Count(s, file, 1)]

get_dlhandler(s, file) == IF file \in DOMAIN s.m THEN s.m[file] ELSE NoFile

\* clear() of the factory, and of the functions.
clear_dlhandlers(s) ==
  [s EXCEPT !.m = <<>>, !.opened = [f \in DOMAIN @ |-> @[f] - (IF f \in DOMAIN s.m THEN 1 ELSE 0)]]
clear_functions(s) == [s EXCEPT !.plugin_funcs = <<>>, !.id_map_idx = <<>>]

\* The first function of a name stays; 0 is the null pointer.  Indices count
\* from 0.
add_plugin_func(s, id, func) ==
  IF func = 0 \/ id \in DOMAIN s.id_map_idx THEN s
  ELSE [s EXCEPT !.id_map_idx = @ @@ (id :> Len(s.plugin_funcs)),
                 !.plugin_funcs = Append(@, func)]

plugin_func_idx(s, id) == IF id \in DOMAIN s.id_map_idx THEN s.id_map_idx[id] ELSE -1

execute(s, idx) == s.plugin_funcs[idx + 1]

Plug(s, c) ==
  CASE c.op = "open"  -> open(s, c.id, c.value # 0)
    [] c.op = "close" -> close(s)
    [] c.op = "add"   -> add_dlhandler(s, c.id, c.value # 0)
    [] c.op = "func"  -> add_plugin_func(s, c.id, c.value)
    [] c.op = "clear" -> clear_functions(clear_dlhandlers(s))

\* A file is open as often as there are handlers of it, so that a plug-in goes
\* only with the last of them; a factory knows the files it could open, and an
\* index is for ever the function that was the first of its name.
KeepsPlugins(calls) ==
  LET s == FoldLeft(Plug, NoPlugins, calls)
      start == Max({0} \cup {i \in DOMAIN calls : calls[i].op = "clear"})
      since == SubSeq(calls, start + 1, Len(calls))
      Firsts(op, id) == SelectSeq(since, LAMBDA c : c.op = op /\ c.id = id /\ c.value # 0)
  IN \A id \in {calls[i].id : i \in DOMAIN calls} :
       /\ Opened(s, id) = (IF s.handler = id THEN 1 ELSE 0) + (IF id \in DOMAIN s.m THEN 1 ELSE 0)
       /\ (get_dlhandler(s, id) # NoFile) = (Firsts("add", id) # <<>>)
       /\ (plugin_func_idx(s, id) = -1) = (Firsts("func", id) = <<>>)
       /\ Firsts("func", id) # <<>> =>
            /\ execute(s, plugin_func_idx(s, id)) = Head(Firsts("func", id)).value
            /\ \A n \in start .. Len(calls) :
                 plugin_func_idx(FoldLeft(Plug, NoPlugins, SubSeq(calls, 1, n)), id)
                   \in {-1, plugin_func_idx(s, id)}
=============================================================================
