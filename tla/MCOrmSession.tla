---------------------------- MODULE MCOrmSession ----------------------------
EXTENDS OrmSession, TLC
=============================================================================
