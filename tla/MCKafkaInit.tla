---------------------------- MODULE MCKafkaInit ----------------------------
EXTENDS KafkaInit

CONSTANT MaxEntries

\* Every metadata list of at most MaxEntries abstract strings
MCMetadatas == UNION {[1 .. n -> Entries] : n \in 0 .. MaxEntries}

\* The pb type strings: "", each format's name, and a name of no format
MCPbTypes == {"", "PLAINTEXT", "INSTANCE", "EXAMPLE", "EXAMPLEBATCH", "bogus"}

MCStringToDataFormat ==
  [t \in MCPbTypes |-> IF t \in DataFormats THEN t ELSE "UNKNOW"]
====
