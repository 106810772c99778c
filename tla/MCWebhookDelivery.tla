-------------------------- MODULE MCWebhookDelivery ---------------------------
EXTENDS WebhookDelivery
===============================================================================
