----------------------------- MODULE MCJwtSession -----------------------------
EXTENDS JwtSession
===============================================================================
