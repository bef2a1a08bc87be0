--------------------------- MODULE TablesTheorems ---------------------------
(***************************************************************************)
(* Put, Drop and Restrict make a table out of a table.  (Which rows it has *)
(* follows from their definitions.)                                        *)
(***************************************************************************)
EXTENDS Tables, TLAPS

\* The rows of a table have the type of its rows.
LEMMA TableRows ==
  ASSUME NEW Keys, NEW Row, NEW t, IsTable(t, Keys, Row)
  PROVE  /\ DOMAIN t \subseteq Keys
         /\ \A k \in DOMAIN t : t[k] \in Row
BY DEF IsTable

\* Putting a row of the right type in a table keeps it a table.
LEMMA PutTable ==
  ASSUME NEW Keys, NEW Row, NEW t, IsTable(t, Keys, Row), NEW k \in Keys, NEW row \in Row
  PROVE  IsTable(Put(t, k, row), Keys, Row)
<1>1. t \in [DOMAIN t -> Row] /\ DOMAIN t \subseteq Keys
  BY DEF IsTable
<1>2. Put(t, k, row) \in [DOMAIN t \cup {k} -> Row]
  BY <1>1 DEF Put
<1>3. DOMAIN Put(t, k, row) = DOMAIN t \cup {k}
  BY DEF Put
<1>4. QED
  BY <1>1, <1>2, <1>3 DEF IsTable

\* So does keeping some of its keys,
LEMMA RestrictTable ==
  ASSUME NEW Keys, NEW Row, NEW t, IsTable(t, Keys, Row), NEW K \in SUBSET DOMAIN t
  PROVE  IsTable(Restrict(t, K), Keys, Row)
<1>1. t \in [DOMAIN t -> Row] /\ DOMAIN t \subseteq Keys
  BY DEF IsTable
<1>2. Restrict(t, K) \in [K -> Row]
  BY <1>1 DEF Restrict
<1>3. DOMAIN Restrict(t, K) = K
  BY DEF Restrict
<1>4. QED
  BY <1>1, <1>2, <1>3 DEF IsTable

\* and dropping one.
LEMMA DropTable ==
  ASSUME NEW Keys, NEW Row, NEW t, IsTable(t, Keys, Row), NEW k
  PROVE  IsTable(Drop(t, k), Keys, Row)
<1>1. DOMAIN t \ {k} \in SUBSET DOMAIN t
  OBVIOUS
<1>2. QED
  BY <1>1, RestrictTable DEF Drop

\* The empty table is one, whatever its rows.
LEMMA NoRowsTable ==
  ASSUME NEW Keys, NEW Row
  PROVE  IsTable(NoRows, Keys, Row) /\ DOMAIN NoRows = {}
BY DEF NoRows, IsTable
=============================================================================
