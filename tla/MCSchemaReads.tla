--------------------------- MODULE MCSchemaReads ----------------------------
EXTENDS SchemaReads, SchemaSamples

MCBodies == {Counter, Transfer}

===========================================================================
