---------------------------- MODULE MCSqlSession ----------------------------
EXTENDS SqlSession, TLC

Row(field, id) == [struct |-> <<field>>, id |-> id]

MCRows    == {Row("name", FALSE), Row("name", TRUE), Row("age", FALSE)}
MCBatches ==
  {<<Row("name", FALSE)>>, <<Row("name", TRUE), Row("name", TRUE)>>,
   <<Row("name", FALSE), Row("name", TRUE)>>, <<Row("name", FALSE), Row("age", FALSE)>>}
=============================================================================
