----------------------------- MODULE MCPayloads -----------------------------
(* Payloads on small instances: bytes of four values, oids of up to two
   sub-identifiers, and packets chosen so that every type, Go type, alignment
   and error of the encoders occurs. *)
EXTENDS Payloads

SmallCodes ==
  [Integer |-> 2, OctetString |-> 4, Null |-> 5, ObjectIdentifier |-> 6, IPAddress |-> 7,
   Counter32 |-> 9, Gauge32 |-> 10, TimeTicks |-> 11, Opaque |-> 12, Counter64 |-> 13,
   NoSuchObject |-> 14, NoSuchInstance |-> 3, EndOfMIBView |-> 1]

UpTimeOID == <<1, 3>>
TrapOID   == <<1, 6>>

SmallTexts == [t \in {<<1, 2>>} |-> <<1, 200>>]

OID(prefix, include, subs) == [prefix |-> prefix, include |-> include, subs |-> subs]
Var(type, name, go, val) == [type |-> type, name |-> name, go |-> go, val |-> val]

Plain == OID(0, 0, <<2>>)
Names == {Plain, OID(0, 0, <<>>), OID(2, 1, <<7, 200>>)}

\* Of every type: values it takes at the edges, and values it does not
Values ==
  {<<"Null", "nil", 0>>, <<"NoSuchInstance", "nil", 0>>, <<"NoSuchObject", "uint32", 3>>,
   <<"EndOfMIBView", "nil", 0>>,
   <<"Integer", "int32", -3>>, <<"Integer", "int32", 100>>, <<"Integer", "uint32", 3>>,
   <<"Counter32", "uint32", 200>>, <<"Gauge32", "uint32", 255>>, <<"Gauge32", "int32", 1>>,
   <<"Counter64", "uint64", 40000>>, <<"Counter64", "uint32", 3>>,
   <<"TimeTicks", "duration", 2 * 257 + 1>>, <<"TimeTicks", "duration", -1>>,
   <<"TimeTicks", "uint32", 80>>, <<"TimeTicks", "int32", 80>>,
   <<"IPAddress", "ip", <<1, 2, 3, 0>>>>, <<"IPAddress", "bytes", <<1, 2, 3>>>>,
   <<"IPAddress", "ip", <<0, 0, 0, 0, 0, 0, 0, 0, 0, 0, 3, 3, 1, 2, 3, 0>>>>,
   <<"ObjectIdentifier", "oid", <<>>>>, <<"ObjectIdentifier", "uint32s", <<1, 200>>>>,
   <<"ObjectIdentifier", "oid", <<1, 2, 3>>>>, <<"ObjectIdentifier", "string", <<1, 2>>>>,
   <<"ObjectIdentifier", "string", <<1>>>>, <<"ObjectIdentifier", "nil", 0>>}
  \cup {<<"OctetString", "string", [i \in 1 .. n |-> 3]>> : n \in {0, 1, 3, 4, 5}}
  \cup {<<"Opaque", "bytes", <<1, 2>>>>, <<"Opaque", "nil", 0>>}

Singles == {Var(v[1], n, v[2], v[3]) : v \in Values, n \in {Plain}}
           \cup {Var("Integer", n, "int32", 1) : n \in Names \cup {OID(0, 0, <<1, 2, 3>>)}}

\* What is followed by something else
Firsts == {v \in Singles : <<v.type, v.go>> \in {<<"OctetString", "string">>, <<"IPAddress", "ip">>,
             <<"ObjectIdentifier", "string">>, <<"Counter64", "uint64">>, <<"Null", "nil">>}}

List(kind, h, items) == [kind |-> kind, head |-> h, items |-> items]

Responses == [upTime : {-5, 0, 2 * 300 + 1}, error : {0, 6}, index : {0, 9}]

SmallOIDs == Names \cup {OID(0, 0, <<1, 2, 3>>)}
Named(oid) == Var("Null", SetIdentifier(oid), "nil", 0)

Notifies ==
  {List("notify", [timestamp |-> t], items) :
     t \in {0, 2 * 5 + 1},
     items \in {<<>>, <<Named(TrapOID)>>, <<Named(<<2>>), Named(TrapOID)>>,
                <<Var("TimeTicks", SetIdentifier(UpTimeOID), "duration", 8)>>,
                <<Var("TimeTicks", SetIdentifier(UpTimeOID), "duration", 8), Named(TrapOID)>>,
                <<Named(TrapOID), Var("Integer", Plain, "string", <<1>>)>>}}

SmallPackets ==
  {List("testSet", <<>>, <<v>>) : v \in Singles}
  \cup {List("testSet", <<>>, <<v, w>>) : v \in Firsts, w \in Firsts}
  \cup {List("response", h, <<>>) : h \in Responses}
  \cup {List("response", [upTime |-> 0, error |-> 0, index |-> 0], <<v, w>>) :
          v \in {Var("OctetString", Plain, "string", <<1>>)}, w \in Firsts}
  \cup {List("get", <<>>, <<[from |-> f, to |-> t]>>) : f, t \in SmallOIDs}
  \cup {List("getNext", <<>>, <<[from |-> f, to |-> t], [from |-> t, to |-> f]>>) : f, t \in Names}
  \cup {List("open", [duration |-> d, priority |-> 1], <<o, t>>) :
          d \in {-1, 0, 5, 7}, o \in SmallOIDs, t \in {<<>>, <<1, 2, 3>>}}
  \cup {List(k, [duration |-> d, priority |-> 3], <<o>>) :
          k \in {"register", "unregister"}, d \in {3, 7}, o \in SmallOIDs}
  \cup {List("close", [reason |-> 3], <<>>)}
  \cup {List(k, <<>>, <<>>) : k \in Empty \cup {"unsupported"}}
  \cup Notifies
=============================================================================
