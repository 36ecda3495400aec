----------------------------- MODULE Enrichment -----------------------------
(***************************************************************************)
(* Context stamped on events before detection (minisoc/enrichment:         *)
(* enricher.py, ioc.py, geoip.py, assets.py).                              *)
(*                                                                         *)
(* A table is the sequence of the rows of its file; a row holds the set of *)
(* addresses of its network (net), its prefix length and what it says, and *)
(* net is Bad when the row cannot be parsed.  A missing file is the empty  *)
(* table; a path that is not configured is None.                           *)
(***************************************************************************)
EXTENDS Rules

CONSTANTS
  Addresses,  \* the values of source.ip that parse as an address
  Private     \* those that are private, loopback, reserved or link-local

ASSUME AddressAssumption == Private \subseteq Addresses

\* What a field holds that Python takes for false.
Falsy == {None, ""}

Rows(table) == IF table = None THEN {} ELSE {k \in DOMAIN table : table[k].net # Bad}

\* MUTANT of Lookup: the first row of the file that holds the address.
LookupFirst(table, ip) ==
  LET holding == {k \in Rows(table) : ip \in Addresses /\ ip \in table[k].net} IN
  IF holding = {} THEN {} ELSE {table[Min(holding)]}

\* The row of the longest prefix that holds the address, the first of equals
\* (AssetInventory, GeoIP): at most one, as a set.
Lookup(table, ip) ==
  LET holding == {k \in Rows(table) : ip \in Addresses /\ ip \in table[k].net}
      longest == {k \in holding : \A j \in holding : table[j].prefix <= table[k].prefix}
  IN IF holding = {} THEN {} ELSE {table[Min(longest)]}

\* IOCFeed.match
Blocklisted(table, ip) == \E k \in Rows(table) : ip \in Addresses /\ ip \in table[k].net

\* GeoIP.lookup
Geo(table, ip) == IF ip \in Private THEN {} ELSE Lookup(table, ip)

\* A field that does not apply is left as it is.
Set(get, applies, field, value) == IF applies THEN [get EXCEPT ![field] = value] ELSE get

\* _enrich_event: the address and the user are those of the log.
EnrichEvent(context, event) ==
  LET ip == event.get["source.ip"]
      user == event.get["user.name"]
      geo == Geo(context.geoip, ip)
      asset == Lookup(context.assets, ip)
      inventoried == Rows(context.assets) # {} /\ ip \notin Falsy
      Only(S) == CHOOSE row \in S : TRUE
      threat == Set(event.get, Blocklisted(context.blocklist, ip), "threat.matched", "True")
      country == Set(threat, geo # {}, "source.geo.country_iso_code", Only(geo).country)
      trust == Set(country, inventoried, "source.asset.trusted",
                   IF asset = {} THEN "False" ELSE Only(asset).trusted)
      name == Set(trust, inventoried /\ asset # {}, "source.asset.name", Only(asset).hostname)
      role == Set(name, user \in DOMAIN context.roles, "user.role", context.roles[user])
  IN [event EXCEPT !.get = role]

\* Enricher.enrich; an inactive enricher has no table.
Enrich(context, events) ==
  IF ~context.enabled THEN events ELSE [e \in DOMAIN events |-> EnrichEvent(context, events[e])]

\* load_assets parses the inventory when the pipeline is built; a file that is
\* no YAML raises, where a missing one is empty.
EnricherRaises(context) == context.enabled /\ context.malformed

Shown == {"threat.matched", "source.geo.country_iso_code", "source.asset.trusted",
          "source.asset.name", "user.role"}

\* enrich_alert: what the first event with an address says.
Summary(events, alert) ==
  LET located == {k \in DOMAIN alert.events : events[alert.events[k]].get["source.ip"] \notin Falsy}
      k == IF located = {} THEN 1 ELSE Min(located)
  IN [f \in Shown |-> IF alert.events = <<>> \/ events[alert.events[k]].get[f] \in Falsy THEN None
                      ELSE events[alert.events[k]].get[f]]

=============================================================================
